---- MODULE Spec2Model ----
(***************************************************************************)
(* Timetabling service: the candidate (matrix, free, filled and the two    *)
(* occupancy maps), the placement operations, the cost functions and the   *)
(* two search phases of optimize_timetable.                                *)
(***************************************************************************)
EXTENDS Integers, Sequences, FiniteSets, TLC

VARIABLES data, cand, caller, aliased, pc, last, steps,
          run, t, stagnation, cost_stats, sigma_k, loss_after,
          iter, curr_cost, initial_total,
          handled, delivery, calls,
          consumer, current_attempt, reconnect_delay, slept, failures, since_connect

vars == <<data, cand, caller, aliased, pc, last, steps,
          run, t, stagnation, cost_stats, sigma_k, loss_after,
          iter, curr_cost, initial_total,
          handled, delivery, calls,
          consumer, current_attempt, reconnect_delay, slept, failures, since_connect>>

\* start_consumer: where it is (in the loop, or past it), its two locals, the delays it
\* has slept, in order, and two tallies: the failed attempts in all, and those since
\* the last successful connection (the attempt that lost that connection included).
scVars == <<consumer, current_attempt, reconnect_delay, slept, failures, since_connect>>

\* The consumer's side: the number of messages the callback has handled, the last one
\* delivered, and the calls the callback made on the channel for it, in order.
cbVars == <<handled, delivery, calls, scVars>>

evoVars == <<run, t, stagnation, cost_stats, sigma_k, loss_after>>

(* ------------------------------ bounds --------------------------------- *)

\* Most classrooms (matrix columns) of an input.
MaxRooms == 2
\* Most allocations of an input of the placement harness.
MaxAllocs == 2
\* Most relocate calls the placement harness makes after initial placement.
MaxSteps == 2
\* Most waits of start_consumer the model follows.
MaxWaits == 12
\* Delays are counted in 64ths of a second: 5 * 1.5^k is a whole number of them up to
\* the last value below the cap.
Ticks == 64
max_reconnect_attempts == 10
max_delay == 60

(* ------------------------- program constants --------------------------- *)

\* Python's None (an empty matrix cell, a missing schedule id, an unbound local).
None == -1
\* Rows of the matrix: 5 days of 12 hourly slots.
ROWS == 60
\* Slots per day.
SLOTS == 12

(* ------------------------------ helpers -------------------------------- *)

Range(s) == {s[i] : i \in DOMAIN s}

\* list.remove(x): the first occurrence goes, the rest keep their order.
RemoveFirst(s, x) ==
    IF \E i \in DOMAIN s : s[i] = x
    THEN LET k == CHOOSE i \in DOMAIN s : s[i] = x /\ \A j \in 1..(i-1) : s[j] # x
         IN  SubSeq(s, 1, k-1) \o SubSeq(s, k+1, Len(s))
    ELSE s

RECURSIVE RemoveAll(_, _)
\* list.remove for each element of xs in turn.
RemoveAll(s, xs) ==
    IF xs = <<>> THEN s ELSE RemoveAll(RemoveFirst(s, Head(xs)), Tail(xs))

RECURSIVE SumFn(_)
SumFn(f) ==
    IF DOMAIN f = {} THEN 0
    ELSE LET x == CHOOSE y \in DOMAIN f : TRUE
         IN  f[x] + SumFn([y \in DOMAIN f \ {x} |-> f[y]])

\* dict[key].append(...) for each of rows, creating the key when it is missing.
AppendAt(m, k, rows) ==
    IF k \in DOMAIN m THEN [m EXCEPT ![k] = @ \o rows] ELSE m @@ (k :> rows)

\* A faulty removal: every occurrence of each row goes, not one per row.
RemoveAt_every_occurrence(m, k, rows) ==
    IF k \in DOMAIN m THEN [m EXCEPT ![k] = SelectSeq(@, LAMBDA r : r \notin Range(rows))] ELSE m

\* "if key in dict and row in dict[key]: dict[key].remove(row)" for each row.
RemoveAt(m, k, rows) ==
    IF k \in DOMAIN m THEN [m EXCEPT ![k] = RemoveAll(@, rows)] ELSE m

(* ------------------------------- data ---------------------------------- *)

NumRooms == Len(data.classrooms)
NumAllocs == Cardinality(DOMAIN data.class_allocations)
Cols == 0..(NumRooms - 1)
Rows == 0..(ROWS - 1)
AllocIdx == DOMAIN data.class_allocations

\* allocation.possible_classrooms as load_data_from_database fills it: the keys of
\* data.classrooms (classroom ids) of the rooms of the required type, not blocked.
possible_classrooms(a) ==
    {data.classrooms[k].id : k \in {k \in DOMAIN data.classrooms :
        /\ data.classrooms[k].space_type = data.class_allocations[a].required_space_type
        /\ ~data.classrooms[k].blocked}}

\* set_up: the matrix of None and the row-major list of all fields.
set_up(n) ==
    [matrix |-> [i \in Rows |-> [j \in 0..(n-1) |-> None]],
     free   |-> [k \in 1..(ROWS * n) |-> <<(k-1) \div n, (k-1) % n>>]]

\* The candidate optimize_timetable builds before initial_population.
EmptyCandidate ==
    [matrix |-> set_up(NumRooms).matrix,
     free   |-> set_up(NumRooms).free,
     filled |-> <<>>,
     groups_empty_space   |-> [g \in data.class_groups |-> <<>>],
     teachers_empty_space |-> [x \in data.teachers |-> <<>>]]

Duration(a) == data.class_allocations[a].duration
TeacherOf(a) == data.class_allocations[a].teacher
GroupOf(a) == data.class_allocations[a].class_group

\* The fields of a block of d rows from start_field down its column.
Block(start_field, d) == [i \in 1..d |-> <<start_field[1] + i - 1, start_field[2]>>]
BlockRows(start_field, d) == [i \in 1..d |-> start_field[1] + i - 1]

\* "No field": what a scan of free gives when it runs off the end.
NoField == <<None, None>>

(* ------------------- map_row_to_schedule (optimizer.py) ---------------- *)

days == <<"Monday", "Tuesday", "Wednesday", "Thursday", "Friday">>

Digit == [d \in 0..9 |-> CASE d = 0 -> "0" [] d = 1 -> "1" [] d = 2 -> "2" [] d = 3 -> "3"
                           [] d = 4 -> "4" [] d = 5 -> "5" [] d = 6 -> "6" [] d = 7 -> "7"
                           [] d = 8 -> "8" [] OTHER -> "9"]

\* f"{hour:02d}:" as a sequence of characters.
HourPrefix(hour) == <<Digit[(hour \div 10) % 10], Digit[hour % 10], ":">>

\* str.startswith on sequences of characters.
StartsWith(s, p) == Len(s) >= Len(p) /\ SubSeq(s, 1, Len(p)) = p

\* The id of the first schedule (in dict order) on the row's weekday whose start_time
\* begins with the row's two-digit hour; None when there is none.
map_row_to_schedule(row, schedules) ==
    IF schedules = <<>> THEN None
    ELSE LET day_index  == row \div SLOTS
             hour_index == row % SLOTS
         IN  IF day_index >= Len(days) THEN None
             ELSE LET weekday == days[day_index + 1]
                      hour    == 7 + hour_index
                      hits    == {k \in DOMAIN schedules :
                                     /\ schedules[k].weekday = weekday
                                     /\ StartsWith(schedules[k].start_time, HourPrefix(hour))}
                  IN  IF hits = {} THEN None
                      ELSE schedules[CHOOSE k \in hits : \A m \in hits : k <= m].id

(* ----------------- valid_teacher_group_row (optimizer.py) -------------- *)

\* VALIDATION 1: the teacher has a non-empty availability list and the row's schedule
\* is missing or not in it.
TeacherUnavailableV(a, row) ==
    /\ ~data.teacher_schedules.is_none
    /\ TeacherOf(a) \in DOMAIN data.teacher_schedules.map
    /\ data.teacher_schedules.map[TeacherOf(a)] # <<>>
    /\ LET schedule_id == map_row_to_schedule(row, data.schedules)
       IN  schedule_id = None \/ schedule_id \notin Range(data.teacher_schedules.map[TeacherOf(a)])

\* A faulty row test: the teacher's availability is not looked at.
valid_row_without_availability(matrix, a, row) ==
    \A j \in Cols :
        matrix[row][j] # None =>
           /\ TeacherOf(a) # TeacherOf(matrix[row][j])
           /\ GroupOf(a) # GroupOf(matrix[row][j])

valid_teacher_group_row(matrix, a, row) ==
    /\ ~TeacherUnavailableV(a, row)
    /\ \A j \in Cols :
          matrix[row][j] # None =>
             /\ TeacherOf(a) # TeacherOf(matrix[row][j])
             /\ GroupOf(a) # GroupOf(matrix[row][j])

(* -------------------- initial_population (optimizer.py) ---------------- *)

\* One pass of the while loop of initial_population at index st.ind of free: the loop
\* stops with the start field (done), or goes on with ind raised by one or by two.
step_initial(free, freeSet, a, st) ==
    LET ind         == st.ind
        start_field == free[ind + 1]
        start_time  == start_field[1]
        end_time    == start_time + Duration(a) - 1
        found       == \A i \in 1..(Duration(a) - 1) :
                           <<i + start_time, start_field[2]>> \in freeSet
        ind1        == IF found THEN ind ELSE ind + 1
    IN  IF start_time % SLOTS > end_time % SLOTS
        THEN [st EXCEPT !.ind = ind + 1]
        ELSE IF start_field[2] \notin possible_classrooms(a)
        THEN [st EXCEPT !.ind = ind1 + 1]
        ELSE IF found THEN [st EXCEPT !.done = TRUE, !.out = start_field]
        ELSE [st EXCEPT !.ind = ind1]

RECURSIVE loop_initial(_, _, _, _, _, _)
\* The passes of the loop whose index lies in lo..hi-1, taken in order (the range is
\* halved so that the evaluation stays shallow).
loop_initial(free, freeSet, a, lo, hi, st) ==
    IF st.done \/ st.ind >= hi \/ hi <= lo THEN st
    ELSE IF hi - lo = 1 THEN (IF st.ind = lo THEN step_initial(free, freeSet, a, st) ELSE st)
    ELSE LET mid  == lo + ((hi - lo) \div 2)
             left == loop_initial(free, freeSet, a, lo, mid, st)
         IN  loop_initial(free, freeSet, a, mid, hi, left)

\* The while loop of initial_population for one allocation: the start field it
\* settles on, or NoField when ind runs off the end of free.
scan_initial(free, freeSet, a, ind) ==
    loop_initial(free, freeSet, a, 0, Len(free), [ind |-> ind, done |-> FALSE, out |-> NoField]).out

\* A faulty booking: the teacher's occupied rows are not recorded.
place_initial_without_teacher_rows(c, a, start_field) ==
    [c EXCEPT
       !.groups_empty_space = AppendAt(@, GroupOf(a), BlockRows(start_field, Duration(a))),
       !.filled = IF a \in DOMAIN @ THEN [@ EXCEPT ![a] = @ \o Block(start_field, Duration(a))]
                  ELSE @ @@ (a :> Block(start_field, Duration(a))),
       !.free = RemoveAll(@, Block(start_field, Duration(a)))]

\* The bookkeeping of a found slot in initial_population (the matrix is filled later).
place_initial(c, a, start_field) ==
    [c EXCEPT
       !.groups_empty_space = AppendAt(@, GroupOf(a), BlockRows(start_field, Duration(a))),
       !.filled = IF a \in DOMAIN @ THEN [@ EXCEPT ![a] = @ \o Block(start_field, Duration(a))]
                  ELSE @ @@ (a :> Block(start_field, Duration(a))),
       !.free = RemoveAll(@, Block(start_field, Duration(a))),
       !.teachers_empty_space = AppendAt(@, TeacherOf(a), BlockRows(start_field, Duration(a)))]

RECURSIVE place_all(_, _)
\* The for loop over data.class_allocations, in index order, from allocation a on.
place_all(c, a) ==
    IF a >= NumAllocs THEN c
    ELSE LET start_field == scan_initial(c.free, Range(c.free), a, 0)
         IN  place_all(IF start_field = NoField THEN c ELSE place_initial(c, a, start_field), a + 1)

\* "Fill the matrix": every field of every filled list gets its allocation index.
fill_matrix(matrix, filled) ==
    [i \in Rows |-> [j \in Cols |->
        IF \E a \in DOMAIN filled : <<i, j>> \in Range(filled[a])
        THEN CHOOSE a \in DOMAIN filled : <<i, j>> \in Range(filled[a])
        ELSE matrix[i][j]]]

initial_population(c) ==
    LET placed == place_all(c, 0)
    IN  [placed EXCEPT !.matrix = fill_matrix(c.matrix, placed.filled)]

(* --------------------- mutate_ideal_spot (optimizer.py) ---------------- *)

\* The block test of mutate_ideal_spot: every field free and every row valid.
block_usable(c, freeSet, a, start_field) ==
    \A i \in 0..(Duration(a) - 1) :
        /\ <<i + start_field[1], start_field[2]>> \in freeSet
        /\ valid_teacher_group_row(c.matrix, a, i + start_field[1])

\* One pass of the while loop of mutate_ideal_spot at index st.ind of free.
step_ideal(c, freeSet, a, st) ==
    LET start_field == c.free[st.ind + 1]
        start_time  == start_field[1]
        end_time    == start_time + Duration(a) - 1
    IN  IF start_time % SLOTS > end_time % SLOTS
        THEN [st EXCEPT !.ind = @ + 1]
        ELSE IF start_field[2] \notin possible_classrooms(a)
        THEN [st EXCEPT !.ind = @ + 1]
        ELSE IF block_usable(c, freeSet, a, start_field)
        THEN [st EXCEPT !.done = TRUE, !.out = start_field]
        ELSE [st EXCEPT !.ind = @ + 1]

RECURSIVE loop_ideal(_, _, _, _, _, _)
\* The passes of the loop whose index lies in lo..hi-1, taken in order.
loop_ideal(c, freeSet, a, lo, hi, st) ==
    IF st.done \/ st.ind >= hi \/ hi <= lo THEN st
    ELSE IF hi - lo = 1 THEN (IF st.ind = lo THEN step_ideal(c, freeSet, a, st) ELSE st)
    ELSE LET mid  == lo + ((hi - lo) \div 2)
             left == loop_ideal(c, freeSet, a, lo, mid, st)
         IN  loop_ideal(c, freeSet, a, mid, hi, left)

\* The while loop of mutate_ideal_spot: the first field of free, in list order, that
\* passes the day check, the room check and the block test; NoField when none does.
scan_ideal(c, freeSet, a, ind) ==
    loop_ideal(c, freeSet, a, 0, Len(c.free), [ind |-> ind, done |-> FALSE, out |-> NoField]).out

\* A faulty move: the old fields are not given back to free.
move_to_without_release(c, a, start_field) ==
    LET fields  == c.filled[a]
        oldRows == [k \in DOMAIN fields |-> fields[k][1]]
        new     == Block(start_field, Duration(a))
        newRows == BlockRows(start_field, Duration(a))
    IN  [matrix |-> [i \in Rows |-> [j \in Cols |->
                       IF <<i, j>> \in Range(new) THEN a
                       ELSE IF <<i, j>> \in Range(fields) THEN None
                       ELSE c.matrix[i][j]]],
         free   |-> RemoveAll(c.free, new),
         filled |-> [c.filled EXCEPT ![a] = new],
         groups_empty_space   |->
             AppendAt(RemoveAt(c.groups_empty_space, GroupOf(a), oldRows), GroupOf(a), newRows),
         teachers_empty_space |->
             AppendAt(RemoveAt(c.teachers_empty_space, TeacherOf(a), oldRows), TeacherOf(a), newRows)]

\* A faulty move: filled records the first field of the new block only.
move_to_first_field(c, a, start_field) ==
    LET fields  == c.filled[a]
        oldRows == [k \in DOMAIN fields |-> fields[k][1]]
        new     == Block(start_field, Duration(a))
        newRows == BlockRows(start_field, Duration(a))
    IN  [matrix |-> [i \in Rows |-> [j \in Cols |->
                       IF <<i, j>> \in Range(new) THEN a
                       ELSE IF <<i, j>> \in Range(fields) THEN None
                       ELSE c.matrix[i][j]]],
         free   |-> RemoveAll(c.free \o fields, new),
         filled |-> [c.filled EXCEPT ![a] = SubSeq(new, 1, 1)],
         groups_empty_space   |->
             AppendAt(RemoveAt(c.groups_empty_space, GroupOf(a), oldRows), GroupOf(a), newRows),
         teachers_empty_space |->
             AppendAt(RemoveAt(c.teachers_empty_space, TeacherOf(a), oldRows), TeacherOf(a), newRows)]

\* "if found": the old fields go back to free and out of the matrix and the occupancy
\* lists, then the new block is booked.
move_to(c, a, start_field) ==
    LET fields  == c.filled[a]
        oldRows == [k \in DOMAIN fields |-> fields[k][1]]
        new     == Block(start_field, Duration(a))
        newRows == BlockRows(start_field, Duration(a))
    IN  [matrix |-> [i \in Rows |-> [j \in Cols |->
                       IF <<i, j>> \in Range(new) THEN a
                       ELSE IF <<i, j>> \in Range(fields) THEN None
                       ELSE c.matrix[i][j]]],
         free   |-> RemoveAll(c.free \o fields, new),
         filled |-> [c.filled EXCEPT ![a] = new],
         groups_empty_space   |->
             AppendAt(RemoveAt(c.groups_empty_space, GroupOf(a), oldRows), GroupOf(a), newRows),
         teachers_empty_space |->
             AppendAt(RemoveAt(c.teachers_empty_space, TeacherOf(a), oldRows), TeacherOf(a), newRows)]

\* The start field mutate_ideal_spot moves allocation a to; NoField when a is not in
\* filled or no field qualifies.
ideal_spot(c, a) ==
    IF a \notin DOMAIN c.filled THEN NoField
    ELSE scan_ideal(c, Range(c.free), a, 0)

\* A faulty relocation: the allocation leaves filled before the search for a slot.
mutate_ideal_spot_pops_first(c, a) ==
    LET start_field == ideal_spot(c, a)
    IN  IF start_field = NoField
        THEN [c EXCEPT !.filled = [b \in DOMAIN c.filled \ {a} |-> c.filled[b]]]
        ELSE move_to(c, a, start_field)

mutate_ideal_spot(c, a) ==
    LET start_field == ideal_spot(c, a)
    IN  IF start_field = NoField THEN c ELSE move_to(c, a, start_field)

(* ------------------------ cost functions (costs.py) -------------------- *)

Occupied(matrix) == {f \in Rows \X Cols : matrix[f[1]][f[2]] # None}

\* A faulty availability test: an empty list is a teacher who is never available.
TeacherUnavailableH_empty_is_never(a, i) ==
    /\ ~data.teacher_schedules.is_none
    /\ TeacherOf(a) \in DOMAIN data.teacher_schedules.map
    /\ LET schedule_id == map_row_to_schedule(i, data.schedules)
       IN  schedule_id = None \/ schedule_id \notin Range(data.teacher_schedules.map[TeacherOf(a)])

\* hard_constraints_cost's availability test for the allocation in a field of row i.
TeacherUnavailableH(a, i) ==
    /\ ~data.teacher_schedules.is_none
    /\ TeacherOf(a) \in DOMAIN data.teacher_schedules.map
    /\ data.teacher_schedules.map[TeacherOf(a)] # <<>>
    /\ LET schedule_id == map_row_to_schedule(i, data.schedules)
       IN  schedule_id = None \/ schedule_id \notin Range(data.teacher_schedules.map[TeacherOf(a)])

\* check_hard_constraints' availability test for the allocation in a field of row i.
TeacherUnavailableC(a, i) ==
    /\ ~data.teacher_schedules.is_none
    /\ TeacherOf(a) \in DOMAIN data.teacher_schedules.map
    /\ data.teacher_schedules.map[TeacherOf(a)] # <<>>
    /\ LET schedule_id == map_row_to_schedule(i, data.schedules)
       IN  schedule_id = None \/ schedule_id \notin Range(data.teacher_schedules.map[TeacherOf(a)])

\* The (field, later field of the same row) pairs hard_constraints_cost visits: k > j.
LaterPairs(matrix) ==
    {p \in Occupied(matrix) \X Cols :
        p[2] > p[1][2] /\ matrix[p[1][1]][p[2]] # None}

\* The (field, other field of the same row) pairs check_hard_constraints visits: k # j.
OtherPairs(matrix) ==
    {p \in Occupied(matrix) \X Cols :
        p[2] # p[1][2] /\ matrix[p[1][1]][p[2]] # None}

First(matrix, p) == matrix[p[1][1]][p[1][2]]
Second(matrix, p) == matrix[p[1][1]][p[2]]

\* hard_constraints_cost: total_cost, cost_allocation, cost_teacher, cost_classrooms,
\* cost_group (the availability count enters the total only).
hard_constraints_cost(matrix) ==
    LET occ      == Occupied(matrix)
        pairs    == LaterPairs(matrix)
        wrong    == {f \in occ : f[2] \notin possible_classrooms(matrix[f[1]][f[2]])}
        unavail  == {f \in occ : TeacherUnavailableH(matrix[f[1]][f[2]], f[1])}
        tpairs   == {p \in pairs : TeacherOf(First(matrix, p)) = TeacherOf(Second(matrix, p))}
        gpairs   == {p \in pairs : GroupOf(First(matrix, p)) = GroupOf(Second(matrix, p))}
    IN  [total_cost      |-> Cardinality(tpairs) + Cardinality(wrong)
                               + Cardinality(gpairs) + Cardinality(unavail),
         cost_allocation |-> [a \in AllocIdx |->
               Cardinality({f \in wrong : matrix[f[1]][f[2]] = a})
             + Cardinality({f \in unavail : matrix[f[1]][f[2]] = a})
             + Cardinality({p \in tpairs : First(matrix, p) = a})
             + Cardinality({p \in gpairs : First(matrix, p) = a})],
         cost_teacher    |-> Cardinality(tpairs),
         cost_classrooms |-> Cardinality(wrong),
         cost_group      |-> Cardinality(gpairs)]

\* A faulty check: the teachers' availability is not counted.
check_hard_constraints_without_availability(matrix) ==
    LET occ   == Occupied(matrix)
        pairs == OtherPairs(matrix)
    IN    Cardinality({f \in occ : f[2] \notin possible_classrooms(matrix[f[1]][f[2]])})
        + Cardinality({p \in pairs : TeacherOf(First(matrix, p)) = TeacherOf(Second(matrix, p))})
        + Cardinality({p \in pairs : GroupOf(First(matrix, p)) = GroupOf(Second(matrix, p))})

\* check_hard_constraints: the number of overlaps, every pair seen from both sides.
check_hard_constraints(matrix) ==
    LET occ   == Occupied(matrix)
        pairs == OtherPairs(matrix)
    IN    Cardinality({f \in occ : f[2] \notin possible_classrooms(matrix[f[1]][f[2]])})
        + Cardinality({f \in occ : TeacherUnavailableC(matrix[f[1]][f[2]], f[1])})
        + Cardinality({p \in pairs : TeacherOf(First(matrix, p)) = TeacherOf(Second(matrix, p))})
        + Cardinality({p \in pairs : GroupOf(First(matrix, p)) = GroupOf(Second(matrix, p))})

\* times.sort() on every list of an occupancy map (the cost functions sort in place).
sorted_space(space) == [k \in DOMAIN space |-> SortSeq(space[k], LAMBDA x, y : x < y)]

\* The gap of the i-th consecutive pair of a sorted list, as the loop
\* "for i in range(1, len(times) - 1)" sees it: 0 unless same day and diff > 1.
pair_gap(times, i) ==
    LET a == times[i]
        b == times[i + 1]
    IN  IF a \div SLOTS = b \div SLOTS /\ b - a > 1 THEN b - a - 1 ELSE 0

\* Faulty tallies: the last consecutive pair is scanned too.
empty_per_day_all_pairs(times) ==
    [d \in 0..4 |-> SumFn([i \in {i \in 1..(Len(times) - 1) : times[i] \div SLOTS = d}
                              |-> pair_gap(times, i)])]

\* The per-day tallies (empty_per_day) of one sorted list.
empty_per_day(times) ==
    [d \in 0..4 |-> SumFn([i \in {i \in 1..(Len(times) - 2) : times[i] \div SLOTS = d}
                              |-> pair_gap(times, i)])]

\* Faulty figures: the average is taken over the keys that hold a row only, and an
\* empty map is not told apart.
empty_space_cost_of_occupied(space) ==
    LET s    == sorted_space(space)
        cost == SumFn([k \in DOMAIN s |-> SumFn(empty_per_day(s[k]))])
        tall == {empty_per_day(s[k])[d] : k \in DOMAIN s, d \in 0..4}
    IN  [cost      |-> cost,
         max_empty |-> CHOOSE m \in tall \cup {0} : \A x \in tall \cup {0} : x <= m,
         avg_num   |-> cost,
         avg_den   |-> Cardinality({k \in DOMAIN s : s[k] # <<>>})]

\* empty_space_groups_cost / empty_space_teachers_cost on the sorted map: cost,
\* max_empty and the average as the fraction cost / len (0.0 when the map is empty).
empty_space_cost(space) ==
    LET s    == sorted_space(space)
        cost == SumFn([k \in DOMAIN s |-> SumFn(empty_per_day(s[k]))])
        tall == {empty_per_day(s[k])[d] : k \in DOMAIN s, d \in 0..4}
    IN  [cost      |-> IF DOMAIN s = {} THEN 0 ELSE cost,
         max_empty |-> IF DOMAIN s = {} THEN 0
                       ELSE CHOOSE m \in tall \cup {0} : \A x \in tall \cup {0} : x <= m,
         avg_num   |-> IF DOMAIN s = {} THEN 0 ELSE cost,
         avg_den   |-> IF DOMAIN s = {} THEN 1 ELSE Cardinality(DOMAIN s)]

(* ------------------------------- inputs -------------------------------- *)

Alloc(g, x, d, s) == [class_group |-> g, teacher |-> x, duration |-> d, required_space_type |-> s]

\* The allocations the placement harness draws from: a 1-hour class, a 2-hour class of
\* the same group, a 12-hour class that needs space type 2 and a 13-hour class.
AllocKinds == {Alloc(1, 1, 1, 1), Alloc(1, 2, 2, 1), Alloc(2, 1, 12, 2), Alloc(2, 2, 13, 1)}

\* The classrooms dict, in insertion order: column c has id idBase + c.
Classrooms(kinds, idBase) ==
    [c \in DOMAIN kinds |-> [id |-> idBase + c - 1,
                             space_type |-> kinds[c].space_type,
                             blocked |-> kinds[c].blocked]]

PlainRooms(k) == [c \in 1..k |-> [space_type |-> 1, blocked |-> FALSE]]

\* Room lists of k rooms: all of type 1; the last one of type 2; the first one blocked.
RoomPatterns(k) ==
    {PlainRooms(k),
     [PlainRooms(k) EXCEPT ![k].space_type = 2],
     [PlainRooms(k) EXCEPT ![1].blocked = TRUE]}

Schedules ==
    << [id |-> 1, weekday |-> "Monday",   start_time |-> <<"0", "7", ":", "0", "0">>],
       [id |-> 2, weekday |-> "Monday",   start_time |-> <<"0", "8", ":", "0", "0">>],
       [id |-> 3, weekday |-> "Tuesday",  start_time |-> <<"0", "7", ":", "0", "0">>],
       [id |-> 4, weekday |-> "Saturday", start_time |-> <<"0", "7", ":", "0", "0">> ] >>

\* teacher_schedules: absent (None); teacher 1 restricted to schedules 1, 2, 3 and
\* teacher 2 missing; teacher 1 present but empty and teacher 2 restricted to a
\* schedule no row maps to.
NoTeacherSchedules == [is_none |-> TRUE, map |-> <<>>]
TeacherSchedulesChoices ==
    {[is_none |-> FALSE, map |-> (1 :> <<1, 2, 3>>)],
     [is_none |-> FALSE, map |-> (1 :> <<>>) @@ (2 :> <<4>>)]}

TimetableData(allocs, rooms, ts) ==
    [class_allocations |-> allocs,
     classrooms        |-> rooms,
     teachers          |-> {1, 2},
     class_groups      |-> {1, 2, 3},
     schedules         |-> Schedules,
     teacher_schedules |-> ts]

\* A request with rooms and schedules but no teacher, no class group and no
\* allocation: load_data_from_database leaves both occupancy maps empty.
EmptyTimetableData(rooms) ==
    [class_allocations |-> <<>>,
     classrooms        |-> rooms,
     teachers          |-> {},
     class_groups      |-> {},
     schedules         |-> Schedules,
     teacher_schedules |-> NoTeacherSchedules]

\* The inputs of the placement harness: every allocation list in the room patterns with
\* ids equal to the columns; the 1-hour and 12-hour classes in plain rooms with ids one
\* above the columns; the 1-hour and 2-hour classes in plain rooms with teacher
\* schedules; the requests without teachers, groups and allocations.
HarnessInputs ==
    LET lists(kinds) == UNION {[0..(k-1) -> kinds] : k \in 1..MaxAllocs}
    IN  {TimetableData(al, Classrooms(rk, 0), NoTeacherSchedules) :
             al \in lists(AllocKinds), rk \in UNION {RoomPatterns(k) : k \in 1..MaxRooms}}
        \cup
        {TimetableData(al, Classrooms(PlainRooms(k), 1), NoTeacherSchedules) :
             al \in lists({Alloc(1, 1, 1, 1), Alloc(2, 1, 12, 2)}), k \in 1..MaxRooms}
        \cup
        {TimetableData(al, Classrooms(PlainRooms(k), 0), ts) :
             al \in lists({Alloc(1, 1, 1, 1), Alloc(1, 2, 2, 1)}),
             k \in 1..MaxRooms, ts \in TeacherSchedulesChoices}
        \cup
        {EmptyTimetableData(Classrooms(PlainRooms(k), 0)) : k \in 1..MaxRooms}

NoOp == [op |-> "none", a |-> None, start |-> NoField]

\* An optional string (None or a str) of the message properties.
NoneStr == [is_none |-> TRUE, value |-> ""]
Str(v) == [is_none |-> FALSE, value |-> v]
NoDelivery ==
    [delivery_tag |-> 0,
     properties   |-> [reply_to |-> NoneStr, correlation_id |-> NoneStr],
     body         |-> [form |-> "none", pattern |-> NoneStr]]

\* The state optimize_timetable is in after load_data_from_database and set_up.
InitWith(inputs) ==
    /\ data \in inputs
    /\ cand = EmptyCandidate
    /\ caller = EmptyCandidate
    /\ aliased = TRUE
    /\ pc = "start"
    /\ last = NoOp
    /\ steps = 0
    /\ run = 0
    /\ t = 0
    /\ stagnation = 0
    /\ cost_stats = 0
    /\ sigma_k = 0
    /\ loss_after = None
    /\ iter = 0
    /\ handled = 0
    /\ delivery = NoDelivery
    /\ calls = <<>>
    /\ consumer = "loop"
    /\ current_attempt = 0
    /\ reconnect_delay = 5 * Ticks
    /\ slept = <<>>
    /\ failures = 0
    /\ since_connect = 0
    /\ curr_cost = [num |-> 0, den |-> 1]
    /\ initial_total = None

Init == InitWith(HarnessInputs)

(* ------------------------- placement harness --------------------------- *)

\* optimize_timetable's call of initial_population.
InitialPopulation ==
    /\ pc = "start"
    /\ cand' = initial_population(cand)
    /\ caller' = cand'
    /\ pc' = "placed"
    /\ last' = [op |-> "initial_population", a |-> None, start |-> NoField]
    /\ UNCHANGED <<cbVars, data, aliased, steps, evoVars, iter, curr_cost, initial_total>>

\* One call mutate_ideal_spot(matrix, data, a, free, filled, ...), for any allocation.
Relocate(a) ==
    /\ pc = "placed"
    /\ steps < MaxSteps
    /\ cand' = mutate_ideal_spot(cand, a)
    /\ caller' = cand'
    /\ last' = [op |-> "relocate", a |-> a, start |-> ideal_spot(cand, a)]
    /\ steps' = steps + 1
    /\ UNCHANGED <<cbVars, data, aliased, pc, evoVars, iter, curr_cost, initial_total>>

Next ==
    \/ InitialPopulation
    \/ \E a \in AllocIdx : Relocate(a)

Spec == Init /\ [][Next]_vars

(* ------------------- properties of the placement operations ------------ *)

Placed(c) == DOMAIN c.filled
AllFields == Rows \X Cols
RelocateMoved == last.op = "relocate" /\ last.start # NoField
Count(seq, x) == Cardinality({i \in DOMAIN seq : seq[i] = x})

\* The list of rows equals, as a multiset, the rows of the filled fields of the
\* allocations of "mine": each row occurs in the list as often as there are
\* (allocation, position) pairs on it.
SameRows(c, list, mine) ==
    LET cells    == UNION {{<<a, k>> : k \in DOMAIN c.filled[a]} : a \in mine}
        rowOf(p) == c.filled[p[1]][p[2]][1]
    IN  /\ Len(list) = Cardinality(cells)
        /\ \A row \in Range(list) \cup {rowOf(p) : p \in cells} :
              Count(list, row) = Cardinality({p \in cells : rowOf(p) = row})

\* C1: matrix, filled and free agree after initial placement and after every relocate
\* call: matrix[row][col] = a iff (row, col) is in filled[a]; free is exactly the set of
\* fields whose matrix entry is empty; no field is in two filled lists, twice in one, or
\* twice in free; so free and the filled lists partition the grid.
C1_Partition ==
    /\ \A f \in AllFields : cand.matrix[f[1]][f[2]] \in AllocIdx \cup {None}
    /\ \A a \in AllocIdx :
          {f \in AllFields : cand.matrix[f[1]][f[2]] = a}
              = (IF a \in Placed(cand) THEN Range(cand.filled[a]) ELSE {})
    /\ Range(cand.free) = {f \in AllFields : cand.matrix[f[1]][f[2]] = None}
    /\ Cardinality(Range(cand.free)) = Len(cand.free)
    /\ \A a \in Placed(cand) : Cardinality(Range(cand.filled[a])) = Len(cand.filled[a])
    /\ \A a, b \in Placed(cand) : a # b => Range(cand.filled[a]) \cap Range(cand.filled[b]) = {}
    /\ Len(cand.free) + SumFn([a \in Placed(cand) |-> Len(cand.filled[a])]) = ROWS * NumRooms

\* C1's case: a relocate call has moved an allocation while another one is placed.
C1_Witness == RelocateMoved /\ Cardinality(Placed(cand)) >= 2

\* C2 as claimed: every placed allocation holds exactly duration fields, in one column,
\* on consecutive rows, all of one day, whatever positive duration the input carries.
C2_BlockInOneDay ==
    \A a \in Placed(cand) :
        LET fields == cand.filled[a]
        IN  /\ Len(fields) = Duration(a)
            /\ \A k \in DOMAIN fields :
                  /\ fields[k][2] = fields[1][2]
                  /\ fields[k][1] = fields[1][1] + k - 1
                  /\ fields[k][1] \div SLOTS = fields[1][1] \div SLOTS

\* C3 as claimed: a 12-hour allocation sits only at a start row with row % 12 = 0 and
\* a 13-hour allocation is never placed.
C3_LongDurations ==
    \A a \in Placed(cand) :
        /\ Duration(a) = 12 => cand.filled[a][1][1] % SLOTS = 0
        /\ Duration(a) # 13

\* C4: for every class group the occupied-row list equals, as a multiset, the rows of
\* the filled fields of the group's placed allocations, and likewise for every teacher.
C4_OccupancyMultisets ==
    /\ DOMAIN cand.groups_empty_space = data.class_groups
    /\ DOMAIN cand.teachers_empty_space = data.teachers
    /\ \A g \in data.class_groups :
          SameRows(cand, cand.groups_empty_space[g], {a \in Placed(cand) : GroupOf(a) = g})
    /\ \A x \in data.teachers :
          SameRows(cand, cand.teachers_empty_space[x], {a \in Placed(cand) : TeacherOf(a) = x})

\* C4's case: a relocate call has moved an allocation whose group has another placed
\* allocation, so the group's list holds rows of both.
C4_Witness ==
    /\ RelocateMoved
    /\ \E b \in Placed(cand) : b # last.a /\ GroupOf(b) = GroupOf(last.a)

\* C7: a relocate call never increases the hard cost, neither the total of
\* hard_constraints_cost nor the count of check_hard_constraints.
C7_RelocateNeverRaisesHardCost ==
    [][last'.op = "relocate" /\ steps' = steps + 1 =>
          /\ hard_constraints_cost(cand'.matrix).total_cost
                <= hard_constraints_cost(cand.matrix).total_cost
          /\ check_hard_constraints(cand'.matrix) <= check_hard_constraints(cand.matrix)]_vars

\* C7's case: a relocate call has moved an allocation that shares its teacher or its
\* group with another placed allocation, and the candidate has hard cost 0.
C7_Witness ==
    /\ RelocateMoved
    /\ \E b \in Placed(cand) :
          b # last.a /\ (TeacherOf(b) = TeacherOf(last.a) \/ GroupOf(b) = GroupOf(last.a))
    /\ check_hard_constraints(cand.matrix) = 0

\* The violations allocation a takes part in: its fields in a wrong room or at a time
\* its teacher is unavailable, and its same-row pairs with the same teacher or group.
Contribution(c, a) ==
    LET mine == {f \in Occupied(c.matrix) : c.matrix[f[1]][f[2]] = a}
    IN    Cardinality({f \in mine : f[2] \notin possible_classrooms(a)})
        + Cardinality({f \in mine : TeacherUnavailableH(a, f[1])})
        + Cardinality({p \in mine \X Cols :
              /\ p[2] # p[1][2]
              /\ c.matrix[p[1][1]][p[2]] # None
              /\ \/ TeacherOf(c.matrix[p[1][1]][p[2]]) = TeacherOf(a)
                 \/ GroupOf(c.matrix[p[1][1]][p[2]]) = GroupOf(a)})

\* What C8 says of a slot: the block of allocation a from field f is inside one day, in
\* an admissible column, on fields free in c, and on rows where a's teacher is available
\* and no other allocation has a's teacher or group.
SlotAsClaimed(c, a, f, inOneDay) ==
    /\ inOneDay => f[1] \div SLOTS = (f[1] + Duration(a) - 1) \div SLOTS
    /\ f[2] \in possible_classrooms(a)
    /\ \A k \in 0..(Duration(a) - 1) :
          /\ <<f[1] + k, f[2]>> \in Range(c.free)
          /\ ~TeacherUnavailableV(a, f[1] + k)
          /\ \A j \in Cols :
                (c.matrix[f[1] + k][j] # None /\ c.matrix[f[1] + k][j] # a) =>
                    /\ TeacherOf(c.matrix[f[1] + k][j]) # TeacherOf(a)
                    /\ GroupOf(c.matrix[f[1] + k][j]) # GroupOf(a)

\* C8 as claimed: when relocate moves a, the new block stays inside one day, its column
\* is admissible, its fields were free, its rows are valid for a, and a contributes no
\* hard-cost violation at its new position.
C8_NewSlotValid ==
    [][(last'.op = "relocate" /\ steps' = steps + 1 /\ last'.start # NoField) =>
          /\ SlotAsClaimed(cand, last'.a, last'.start, TRUE)
          /\ cand'.filled[last'.a] = Block(last'.start, Duration(last'.a))
          /\ Contribution(cand', last'.a) = 0]_vars

\* The same statement without the one-day condition (what does hold of the code).
C8_NewSlotValidButDay ==
    [][(last'.op = "relocate" /\ steps' = steps + 1 /\ last'.start # NoField) =>
          /\ SlotAsClaimed(cand, last'.a, last'.start, FALSE)
          /\ cand'.filled[last'.a] = Block(last'.start, Duration(last'.a))
          /\ Contribution(cand', last'.a) = 0]_vars

\* No field of free passes relocate's day check, room check and block test for a.
NoQualifyingSlot(c, a) ==
    \A k \in DOMAIN c.free :
        LET f == c.free[k]
        IN  \/ f[1] % SLOTS > (f[1] + Duration(a) - 1) % SLOTS
            \/ f[2] \notin possible_classrooms(a)
            \/ \E i \in 0..(Duration(a) - 1) :
                  \/ <<f[1] + i, f[2]>> \notin Range(c.free)
                  \/ ~valid_teacher_group_row(c.matrix, a, f[1] + i)

\* C9: when a is not placed, or no slot qualifies, a relocate call leaves matrix, free
\* (order included), filled and both occupancy maps as they were.
C9_NoSlotNoChange ==
    [][(last'.op = "relocate" /\ steps' = steps + 1
          /\ (last'.a \notin Placed(cand) \/ NoQualifyingSlot(cand, last'.a)))
          => cand' = cand]_vars

\* C9's case: a relocate call on a placed allocation has found no slot.
C9_Witness == last.op = "relocate" /\ last.start = NoField /\ last.a \in Placed(cand)

\* C9's other case: a relocate call on an allocation that is not placed.
C9_WitnessUnplaced == last.op = "relocate" /\ last.a \notin Placed(cand)

\* C10: check_hard_constraints returns 0 exactly when hard_constraints_cost's total is 0.
C10_ZeroTogether ==
    (check_hard_constraints(cand.matrix) = 0)
        <=> (hard_constraints_cost(cand.matrix).total_cost = 0)

\* C10's case: a candidate with conflicts, where the two functions return different
\* positive numbers.
C10_Witness ==
    /\ hard_constraints_cost(cand.matrix).total_cost > 0
    /\ check_hard_constraints(cand.matrix) > hard_constraints_cost(cand.matrix).total_cost

\* The columns whose classroom, in the order that builds the matrix, has the space type
\* allocation a requires and is not blocked.
MatchingColumns(a) ==
    {col \in Cols :
        /\ data.classrooms[col + 1].space_type = data.class_allocations[a].required_space_type
        /\ ~data.classrooms[col + 1].blocked}

\* C12 as claimed: possible_classrooms of every allocation is the set of matching
\* columns, so an allocation with a matching unblocked room has an admissible column
\* and initial placement finds it a place on the empty grid.
C12_AdmissibleAreColumns ==
    \A a \in AllocIdx :
        /\ possible_classrooms(a) = MatchingColumns(a)
        /\ MatchingColumns(a) # {} => possible_classrooms(a) \cap Cols # {}
        /\ (pc = "placed" /\ NumAllocs = 1 /\ MatchingColumns(a) # {} /\ Duration(a) <= SLOTS)
              => a \in Placed(cand)

(* ------------------ the search phases (optimizer.py) ------------------- *)

\* evolutionary_algorithm's n, run_times and max_stagnation.
n == 3
run_times == 5
max_stagnation == 200
\* simulated_hardening's iter_count.
iter_count == 2500
\* Most annealing iterations the model follows before it lets the loop end.
MaxAnneal == 2
MaxMessages == 2

\* sigma is 2 * 0.85^sigma_k; it is at least 1 (so that u < sigma for every u in
\* [0, 1)) exactly when sigma_k <= 4, since 2 * 0.85^4 > 1 > 2 * 0.85^5.
LastSureExponent == 4
SigmaAtLeastOne(k) == k <= LastSureExponent

\* sorted(cost_allocations.items(), key=itemgetter(1), reverse=True): the allocation
\* indices by cost, highest first, equal costs in index order (the sort is stable).
costs_list(cost_allocation) ==
    SortSeq([i \in 1..NumAllocs |-> i - 1],
            LAMBDA x, y : \/ cost_allocation[x] > cost_allocation[y]
                          \/ (cost_allocation[x] = cost_allocation[y] /\ x < y))

RECURSIVE mutate_each(_, _)
\* mutate_ideal_spot for each allocation of the list, in order.
mutate_each(c, picks) ==
    IF picks = <<>> THEN c
    ELSE mutate_each(mutate_ideal_spot(c, Head(picks)), Tail(picks))

\* Faulty loop: it runs over the whole of costs_list, not over its first quarter, and
\* does not draw.
evo_picks_of_all(order, cost_allocation, draws) ==
    SelectSeq(order, LAMBDA a : cost_allocation[a] # 0)

\* Faulty loop: the costliest allocation is tried whatever the length of the list, and
\* without a draw.
evo_picks_of_worst(order, cost_allocation, draws) ==
    SelectSeq(SubSeq(order, 1, 1), LAMBDA a : cost_allocation[a] # 0)

\* The allocations an evolutionary iteration mutates: of the first len // 4 entries of
\* costs_list, those with non-zero cost whose draw u < sigma came out true.
evo_picks(order, cost_allocation, draws) ==
    SelectSeq(SubSeq(order, 1, NumAllocs \div 4),
              LAMBDA a : cost_allocation[a] # 0 /\ a \in draws)

\* Both occupancy maps after the cost functions have sorted their lists in place.
with_sorted_lists(c) ==
    [c EXCEPT !.groups_empty_space = sorted_space(@),
              !.teachers_empty_space = sorted_space(@)]

\* Faulty cost: the teachers' average-per-week figure is added to the groups' one.
group_and_teacher_average(c) ==
    LET g == empty_space_cost(c.groups_empty_space)
        x == empty_space_cost(c.teachers_empty_space)
    IN  [num |-> g.avg_num * x.avg_den + x.avg_num * g.avg_den,
         den |-> g.avg_den * x.avg_den]

\* The average-per-week figure of the groups, as a fraction.
group_average(c) ==
    [num |-> empty_space_cost(c.groups_empty_space).avg_num,
     den |-> empty_space_cost(c.groups_empty_space).avg_den]

\* Faulty comparison: equal figures count as a rise.
FracLessOrEqual(x, y) == x.num * y.den <= y.num * x.den

FracLess(x, y) == x.num * y.den < y.num * x.den

\* The inputs of the whole optimisation, in plain rooms without teacher schedules: four
\* 1-hour or 2-hour classes (so that len // 4 = 1), or two classes, the first a 1-hour
\* class of group 1 and teacher 1, or one class; a class that needs space type 2 has no
\* room.
OptKinds == {Alloc(1, 1, 1, 1), Alloc(1, 2, 1, 1), Alloc(2, 1, 2, 1)}
OptQuartet == [i \in 0..3 |-> IF i = 2 THEN Alloc(2, 1, 2, 1) ELSE Alloc(1, 1 + (i % 2), 1, 1)]
SharedTeacherPair == <<Alloc(1, 1, 1, 1), Alloc(2, 1, 1, 1)>>
OptLists ==
    {x \in [0..3 -> OptKinds] \cup [0..1 -> OptKinds \cup {SharedTeacherPair[2]}] :
        x[0] = Alloc(1, 1, 1, 1)}
    \cup [0..0 -> OptKinds \cup {Alloc(1, 1, 1, 2)}]
    \cup {[OptQuartet EXCEPT ![3] = Alloc(1, 1, 1, 2)]}
\* Two rooms and four 1-hour classes, teacher 1 available on Monday at 07:00 and 08:00
\* only: the class that carries the cost of row 0 has no row to go to, its partner has.
StuckInput ==
    TimetableData([i \in 0..3 |-> <<Alloc(1, 1, 1, 1), Alloc(1, 2, 1, 1),
                                     Alloc(2, 2, 1, 1), Alloc(3, 1, 1, 1)>>[i + 1]],
                  Classrooms(PlainRooms(2), 0),
                  [is_none |-> FALSE, map |-> (1 :> <<1, 2>>)])
\* Two rooms, a 2-hour class and a 1-hour class of the same group: the second is placed
\* beside the first row of the first, so the group's rows are booked out of order.
OutOfOrderInput ==
    TimetableData([i \in 0..1 |-> <<Alloc(1, 1, 2, 1), Alloc(1, 2, 1, 1)>>[i + 1]],
                  Classrooms(PlainRooms(2), 0), NoTeacherSchedules)
\* One room and seven 1-hour classes; the six of teacher 1, who is available on
\* Tuesday from 07:00 to 12:00 only, are moved there one per iteration; the class of
\* teacher 2, whose only schedule maps to no row, keeps its cost for ever.
ClimbSchedules ==
    [k \in 1..6 |-> [id |-> k, weekday |-> "Tuesday",
                     start_time |-> <<Digit[(6 + k) \div 10], Digit[(6 + k) % 10],
                                      ":", "0", "0">>]]
ClimbInput ==
    [TimetableData([i \in 0..6 |-> IF i = 6 THEN Alloc(3, 2, 1, 1)
                                             ELSE Alloc(1 + (i % 3), 1, 1, 1)],
                   Classrooms(PlainRooms(1), 0),
                   [is_none |-> FALSE, map |-> (1 :> <<1, 2, 3, 4, 5, 6>>) @@ (2 :> <<7>>)])
        EXCEPT !.schedules = ClimbSchedules]
OptInputs ==
    {TimetableData(al, Classrooms(PlainRooms(k), 0), NoTeacherSchedules) :
        al \in OptLists, k \in 1..MaxRooms}
    \cup {StuckInput, OutOfOrderInput}

InitOpt == InitWith(OptInputs)

\* optimize_timetable after initial_population: the initial cost, then the call of
\* evolutionary_algorithm (sigma = 2, first run).
EvoBegin ==
    /\ pc = "placed"
    /\ initial_total' = hard_constraints_cost(cand.matrix).total_cost
    /\ pc' = "evo"
    /\ run' = 0
    /\ t' = 0
    /\ stagnation' = 0
    /\ cost_stats' = 0
    /\ sigma_k' = 0
    /\ last' = NoOp
    /\ UNCHANGED <<cbVars, data, cand, caller, aliased, steps, loss_after, iter, curr_cost>>

\* Faulty test: the optimum is never recognised.
optimal_never_found(c) == FALSE

\* The test at the top of an iteration: loss_before == 0 and check_hard_constraints == 0.
optimal_found(c) ==
    /\ hard_constraints_cost(c.matrix).total_cost = 0
    /\ check_hard_constraints(c.matrix) = 0

\* An iteration of the while loop that finds the optimum and breaks.
EvoFound ==
    /\ pc = "evo"
    /\ stagnation < max_stagnation
    /\ optimal_found(cand)
    /\ pc' = "evo_end"
    /\ last' = [op |-> "found", a |-> None, start |-> NoField]
    /\ UNCHANGED <<cbVars, data, cand, caller, aliased, steps, evoVars, iter, curr_cost, initial_total>>

\* The allocations the mutation loop of an evolutionary iteration looks at.
TopQuarter(c) ==
    Range(SubSeq(costs_list(hard_constraints_cost(c.matrix).cost_allocation),
                 1, NumAllocs \div 4))

\* Faulty test: sigma is adapted every n iterations from the start of the run.
adaptation_point_from_start(t1) == t1 % n = 0

\* if t >= 10*n and t % n == 0, for the value t has after t += 1.
adaptation_point(t1) == t1 >= 10 * n /\ t1 % n = 0

\* Faulty rule: the new exponent is that of sigma * 0.85 whatever the count.
adapt_sigma_always_down(k, s) == k + 1

\* Faulty rule: the two branches are exchanged.
adapt_sigma_inverted(k, s) == IF s < 2 * n THEN k - 1 ELSE k + 1

\* The 1/5 rule on the exponent of sigma: sigma *= 0.85 if s < 2*n, else sigma /= 0.85.
adapt_sigma(k, s) == IF s < 2 * n THEN k + 1 ELSE k - 1

\* An iteration of the while loop that mutates: draws is the set of allocations whose
\* draw u < sigma is true (all of them while sigma >= 1).
EvoIter(draws) ==
    /\ pc = "evo"
    /\ stagnation < max_stagnation
    /\ LET before == hard_constraints_cost(cand.matrix)
           picks  == evo_picks(costs_list(before.cost_allocation), before.cost_allocation, draws)
           after  == mutate_each(cand, picks)
           loss   == hard_constraints_cost(after.matrix).total_cost
           stats  == IF loss < before.total_cost THEN cost_stats + 1 ELSE cost_stats
           adapt  == adaptation_point(t + 1)
       IN  /\ ~optimal_found(cand)
           /\ SigmaAtLeastOne(sigma_k) => draws = TopQuarter(cand)
           /\ cand' = after
           /\ caller' = after
           /\ loss_after' = loss
           /\ stagnation' = IF loss < before.total_cost THEN 0 ELSE stagnation + 1
           /\ t' = t + 1
           /\ sigma_k' = IF ~adapt THEN sigma_k ELSE adapt_sigma(sigma_k, stats)
           /\ cost_stats' = IF adapt THEN 0 ELSE stats
           /\ pc' = IF stagnation' < max_stagnation THEN "evo" ELSE "evo_end"
           /\ last' = [op |-> "evo_iter", a |-> IF picks = <<>> THEN None ELSE picks[Len(picks)],
                       start |-> NoField]
    /\ UNCHANGED <<cbVars, data, aliased, steps, run, iter, curr_cost, initial_total>>

\* The prints after the while loop: "Final cost: {loss_after}" raises UnboundLocalError
\* when no iteration of any run so far has assigned loss_after; process_optimize_timetable
\* turns the exception into an error reply.
EvoEndRunRaises ==
    /\ pc = "evo_end"
    /\ loss_after = None
    /\ pc' = "error"
    /\ last' = [op |-> "raise", a |-> None, start |-> NoField]
    /\ UNCHANGED <<cbVars, data, cand, caller, aliased, steps, evoVars, iter, curr_cost, initial_total>>

\* The prints succeed; the next run starts with t, stagnation and cost_stats at 0, or
\* the phase ends after run_times runs.
EvoEndRun ==
    /\ pc = "evo_end"
    /\ loss_after # None
    /\ run' = run + 1
    /\ t' = 0
    /\ stagnation' = 0
    /\ cost_stats' = 0
    /\ pc' = IF run + 1 < run_times THEN "evo" ELSE "stats"
    /\ last' = [op |-> "end_run", a |-> None, start |-> NoField]
    /\ UNCHANGED <<cbVars, data, cand, caller, aliased, steps, sigma_k, loss_after, iter, curr_cost,
                   initial_total>>

\* show_statistics after the evolutionary phase (it sorts the occupancy lists), then the
\* start of simulated_hardening: curr_cost from the group figure.
AnnealBegin ==
    /\ pc = "stats"
    /\ cand' = with_sorted_lists(cand)
    /\ caller' = cand'
    /\ curr_cost' = group_average(cand)
    /\ iter' = 0
    /\ pc' = "anneal"
    /\ last' = [op |-> "anneal_begin", a |-> None, start |-> NoField]
    /\ UNCHANGED <<cbVars, data, aliased, steps, evoVars, initial_total>>

\* Two rooms, a 2-hour class and a 1-hour class of the same teacher: a conflict that
\* stays, and no relocation in any iteration of the annealing.
FullLoopInput ==
    TimetableData([i \in 0..1 |-> <<Alloc(1, 1, 2, 1), Alloc(2, 1, 1, 1)>>[i + 1]],
                  Classrooms(PlainRooms(2), 0), NoTeacherSchedules)

\* The loop of simulated_hardening goes on while i < iter_count (followed for MaxAnneal
\* iterations, and to its end on the request FullLoopInput).
AnnealGoesOn == iter < iter_count /\ (iter < MaxAnneal \/ data = FullLoopInput)

\* The candidate after the relocations of one annealing iteration and the sort of the
\* cost functions.
anneal_mutated(c, picks) == with_sorted_lists(mutate_each(c, picks))

\* An annealing iteration that accepts: new_cost < curr_cost, or rt <= exp((curr_cost -
\* new_cost) / t), which is certain when the costs are equal (exp(0) = 1) and a matter
\* of the draw rt when new_cost > curr_cost.
AnnealAccept(picks) ==
    /\ pc = "anneal"
    /\ AnnealGoesOn
    /\ cand' = anneal_mutated(cand, picks)
    /\ caller' = IF aliased THEN cand' ELSE caller
    /\ curr_cost' = group_average(cand')
    /\ iter' = iter + 1
    /\ last' = [op |-> "accept", a |-> picks[Len(picks)], start |-> NoField]
    /\ UNCHANGED <<cbVars, data, aliased, pc, steps, evoVars, initial_total>>

\* The snapshot of an annealing iteration: deep copies of the five structures.
snapshot(c) ==
    [old_matrix               |-> c.matrix,
     old_free                 |-> c.free,
     old_filled               |-> c.filled,
     old_groups_empty_space   |-> c.groups_empty_space,
     old_teachers_empty_space |-> c.teachers_empty_space]

\* Faulty restore: the occupancy maps are not put back.
restored_without_maps(old, mutated) ==
    [matrix               |-> old.old_matrix,
     free                 |-> old.old_free,
     filled               |-> old.old_filled,
     groups_empty_space   |-> mutated.groups_empty_space,
     teachers_empty_space |-> mutated.teachers_empty_space]

\* The else branch of an annealing iteration: the five working names are bound to
\* copies of the snapshot.
restored(old, mutated) ==
    [matrix               |-> old.old_matrix,
     free                 |-> old.old_free,
     filled               |-> old.old_filled,
     groups_empty_space   |-> old.old_groups_empty_space,
     teachers_empty_space |-> old.old_teachers_empty_space]

\* An annealing iteration that rejects (only possible when new_cost > curr_cost): the
\* local names are rebound to copies of the snapshot; the objects the caller passed in
\* keep the mutated state and are no longer the ones the loop works on.
AnnealReject(picks) ==
    /\ pc = "anneal"
    /\ AnnealGoesOn
    /\ FracLess(curr_cost, group_average(anneal_mutated(cand, picks)))
    /\ cand' = restored(snapshot(cand), anneal_mutated(cand, picks))
    /\ caller' = IF aliased THEN anneal_mutated(cand, picks) ELSE caller
    /\ aliased' = FALSE
    /\ iter' = iter + 1
    /\ last' = [op |-> "reject", a |-> picks[Len(picks)], start |-> NoField]
    /\ UNCHANGED <<cbVars, data, pc, steps, evoVars, curr_cost, initial_total>>

\* The loop ends; optimize_timetable returns its own matrix, filled and occupancy maps.
Return ==
    /\ pc = "anneal"
    /\ ~AnnealGoesOn
    /\ pc' = "returned"
    /\ last' = [op |-> "return", a |-> None, start |-> NoField]
    /\ UNCHANGED <<cbVars, data, cand, caller, aliased, steps, evoVars, iter, curr_cost, initial_total>>

\* Faulty loop: len // 2 relocations in an iteration.
AnnealPicks_of_half == [1..(NumAllocs \div 2) -> AllocIdx]

\* The allocation indices random.randrange draws in one annealing iteration.
AnnealPicks == [1..(NumAllocs \div 4) -> AllocIdx]

\* An annealing iteration with no relocation (fewer than 4 allocations): the cost is
\* unchanged, so the iteration accepts.
AnnealIdle ==
    /\ pc = "anneal"
    /\ AnnealGoesOn
    /\ NumAllocs \div 4 = 0
    /\ iter' = iter + 1
    /\ last' = [op |-> "accept", a |-> None, start |-> NoField]
    /\ UNCHANGED <<cbVars, data, cand, caller, aliased, pc, steps, evoVars, curr_cost, initial_total>>

NextOpt ==
    \/ InitialPopulation
    \/ EvoBegin
    \/ EvoFound
    \/ \E draws \in SUBSET TopQuarter(cand) : EvoIter(draws)
    \/ EvoEndRunRaises
    \/ EvoEndRun
    \/ AnnealBegin
    \/ \E picks \in AnnealPicks : NumAllocs \div 4 > 0 /\ AnnealAccept(picks)
    \/ \E picks \in AnnealPicks : NumAllocs \div 4 > 0 /\ AnnealReject(picks)
    \/ AnnealIdle
    \/ Return

SpecOpt == InitOpt /\ [][NextOpt]_vars

\* The whole optimisation on the requests that show the annealing loop: the pair whose
\* loop is followed to its end, four classes in two rooms that the annealing moves
\* about, and one class alone.
AnnealInputs ==
    {FullLoopInput,
     TimetableData([i \in 0..0 |-> Alloc(1, 1, 1, 1)], Classrooms(PlainRooms(1), 0),
                   NoTeacherSchedules),
     TimetableData([i \in 0..3 |-> <<Alloc(1, 1, 1, 1), Alloc(1, 1, 1, 1),
                                     Alloc(1, 2, 1, 1), Alloc(2, 1, 2, 1)>>[i + 1]],
                   Classrooms(PlainRooms(2), 0), NoTeacherSchedules)}
InitAnneal == InitWith(AnnealInputs)
SpecAnneal == InitAnneal /\ [][NextOpt]_vars

\* The whole optimisation on the requests that show the adaptation of sigma: the seven
\* classes that improve six times and then stagnate, the pair that never improves, one
\* class alone, which is optimal at once, and four classes in two rooms, which become
\* optimal and are moved about by the annealing.
EvoInputs ==
    {ClimbInput, OutOfOrderInput,
     TimetableData([i \in 0..0 |-> Alloc(1, 1, 1, 1)], Classrooms(PlainRooms(1), 0),
                   NoTeacherSchedules),
     TimetableData([i \in 0..3 |-> <<Alloc(1, 1, 1, 1), Alloc(1, 1, 1, 1),
                                     Alloc(1, 2, 1, 1), Alloc(2, 1, 2, 1)>>[i + 1]],
                   Classrooms(PlainRooms(2), 0), NoTeacherSchedules)}
InitEvo == InitWith(EvoInputs)
SpecEvo == InitEvo /\ [][NextOpt]_vars

(* --------------- the reply of process_optimize_timetable --------------- *)

\* hours = list(range(7, 19)).
hours == [i \in 1..12 |-> 6 + i]

\* Faulty time_info: the hour table is range(7, 18), one hour short.
time_info_eleven_hours(time_slots) ==
    LET short == [i \in 1..11 |-> 6 + i]
        kept  == SelectSeq(time_slots,
                    LAMBDA f : f[1] \div 12 < Len(days) /\ f[1] % 12 < Len(short))
    IN  [k \in 1..Len(kept) |->
            [day |-> days[(kept[k][1] \div 12) + 1], hour |-> short[(kept[k][1] % 12) + 1]]]

\* The time_info list of one filled list: a slot is kept when its day index and hour
\* index are inside the two tables.
time_info(time_slots) ==
    LET kept == SelectSeq(time_slots,
                    LAMBDA f : f[1] \div 12 < Len(days) /\ f[1] % 12 < Len(hours))
    IN  [k \in 1..Len(kept) |->
            [day |-> days[(kept[k][1] \div 12) + 1], hour |-> hours[(kept[k][1] % 12) + 1]]]

\* The keys of the classrooms dict, and timetable_data.classrooms[classroom_idx].
classroom_keys == {data.classrooms[i].id : i \in DOMAIN data.classrooms}
classroom_at(classroom_idx) ==
    data.classrooms[CHOOSE i \in DOMAIN data.classrooms : data.classrooms[i].id = classroom_idx]

\* The allocations that get an entry: the keys of filled with a non-empty list.
scheduled(c) == {a \in DOMAIN c.filled : c.filled[a] # <<>>}

\* The lookup classrooms[classroom_idx] raises KeyError for a column that is no key.
schedule_raises(c) == \E a \in scheduled(c) : c.filled[a][1][2] \notin classroom_keys

\* optimized_schedule, one entry per key of filled (keyed here by the allocation index;
\* the list order, which is filled's insertion order, is left out).
optimized_schedule(c) ==
    [a \in scheduled(c) |->
        [allocation  |-> a,
         class_group |-> GroupOf(a),
         teacher     |-> TeacherOf(a),
         classroom   |-> classroom_at(c.filled[a][1][2]).id,
         time_slots  |-> time_info(c.filled[a]),
         duration    |-> Duration(a)]]

\* Faulty statistics: the cost is hard_constraints_cost's total, not the check's count.
statistics_from_total(c) ==
    [hard_constraints_satisfied |-> check_hard_constraints(c.matrix) = 0,
     hard_constraints_cost      |-> hard_constraints_cost(c.matrix).total_cost,
     total_allocations          |-> NumAllocs,
     groups_empty_space         |-> empty_space_cost(c.groups_empty_space),
     teachers_empty_space       |-> empty_space_cost(c.teachers_empty_space)]

\* The statistics of the reply (the two idle-gap blocks as empty_space_cost gives them).
statistics(c) ==
    [hard_constraints_satisfied |-> check_hard_constraints(c.matrix) = 0,
     hard_constraints_cost      |-> check_hard_constraints(c.matrix),
     total_allocations          |-> NumAllocs,
     groups_empty_space         |-> empty_space_cost(c.groups_empty_space),
     teachers_empty_space       |-> empty_space_cost(c.teachers_empty_space)]

\* optimize_timetable has returned or raised, so process_optimize_timetable replies.
Replied == pc \in {"returned", "error"}

\* The status of the reply: "error" when anything raised inside the try block.
reply_status == IF pc = "error" \/ schedule_raises(caller) THEN "error" ELSE "success"

(* ------------------- properties of optimize_timetable ------------------ *)

\* C5 as claimed: through the annealing phase and at the return, the candidate the
\* caller holds (matrix, filled and the two occupancy maps it returns) is the annealing
\* phase's current candidate, never the state of a rejected mutation.
C5_CallerHoldsCurrent ==
    pc \in {"anneal", "returned"} =>
        /\ caller.matrix = cand.matrix
        /\ caller.filled = cand.filled
        /\ caller.groups_empty_space = cand.groups_empty_space
        /\ caller.teachers_empty_space = cand.teachers_empty_space

\* C6 as claimed: when the initial placement has hard cost 0 the evolutionary phase ends
\* without raising, and the result reports hard cost 0.
C6_ZeroCostStartSucceeds ==
    initial_total = 0 =>
        /\ pc # "error"
        /\ pc = "returned" => check_hard_constraints(caller.matrix) = 0

\* Once both the working candidate and the caller's have hard cost 0 in the annealing
\* phase, both keep it through every iteration, accepted or rolled back.
AnnealKeepsFeasible ==
    [][(pc = "anneal" /\ check_hard_constraints(cand.matrix) = 0
                      /\ check_hard_constraints(caller.matrix) = 0)
          => (check_hard_constraints(cand'.matrix) = 0
              /\ check_hard_constraints(caller'.matrix) = 0)]_vars

\* The input of C11: two rooms of the required type and two 1-hour allocations of one
\* teacher and different groups.
SharedTeacherInput ==
    /\ NumRooms = 2
    /\ NumAllocs = 2
    /\ \A a \in AllocIdx : Duration(a) = 1 /\ possible_classrooms(a) = Cols
    /\ TeacherOf(0) = TeacherOf(1)
    /\ GroupOf(0) # GroupOf(1)

\* C11 as claimed: for that input the reply of optimize has the two allocations on
\* different rows, hard cost 0 and a schedule of 2 entries.
C11_SharedTeacherSeparated ==
    (Replied /\ SharedTeacherInput) =>
        /\ reply_status = "success"
        /\ scheduled(caller) = {0, 1}
        /\ caller.filled[0][1][1] # caller.filled[1][1][1]
        /\ statistics(caller).hard_constraints_cost = 0

\* C13 as claimed: an allocation with no unblocked room of its space type is never
\* placed, adds nothing to the hard cost, has no schedule entry and is counted in
\* total_allocations of a success reply; when no allocation has a room the reply reports
\* hard cost 0.
C13_NoRoomStaysOut ==
    \A a \in AllocIdx : possible_classrooms(a) = {} =>
        /\ a \notin Placed(cand) \cup Placed(caller)
        /\ hard_constraints_cost(cand.matrix).cost_allocation[a] = 0
        /\ Replied =>
              /\ reply_status = "success"
              /\ a \notin scheduled(caller)
              /\ statistics(caller).total_allocations > Cardinality(scheduled(caller))
              /\ (\A b \in AllocIdx : possible_classrooms(b) = {})
                    => statistics(caller).hard_constraints_cost = 0

\* The same statement for the replies that are not the error reply.
C13_NoRoomStaysOutOfSuccess ==
    \A a \in AllocIdx : possible_classrooms(a) = {} =>
        /\ a \notin Placed(cand) \cup Placed(caller)
        /\ hard_constraints_cost(cand.matrix).cost_allocation[a] = 0
        /\ (Replied /\ reply_status = "success") =>
              /\ a \notin scheduled(caller)
              /\ statistics(caller).total_allocations > Cardinality(scheduled(caller))

\* The evolutionary phase has ended all its runs with hard cost > 0 (loss_after is the
\* cost after its last iteration) and optimize has replied.
RepliedAfterInfeasibleEvo == Replied /\ loss_after # None /\ loss_after > 0

\* C14 as claimed: when the evolutionary phase ends with hard cost > 0 the reply is a
\* success reply with hard_constraints_satisfied = false and hard_constraints_cost > 0.
C14_InfeasibleReplySaysSo ==
    RepliedAfterInfeasibleEvo =>
        /\ reply_status = "success"
        /\ ~statistics(caller).hard_constraints_satisfied
        /\ statistics(caller).hard_constraints_cost > 0

\* C14 amended: when the evolutionary phase ends with hard cost > 0, annealing still
\* runs and the reply is a success reply whose hard_constraints_cost is
\* check_hard_constraints of the returned matrix and whose hard_constraints_satisfied is
\* true exactly when that is 0; the returned hard cost is at most the cost the
\* evolutionary phase ended with, and may be 0.
C14_InfeasibleStillReplies ==
    RepliedAfterInfeasibleEvo =>
        /\ pc = "returned"
        /\ ~AnnealGoesOn
        /\ reply_status = "success"
        /\ statistics(caller).hard_constraints_cost = check_hard_constraints(caller.matrix)
        /\ statistics(caller).hard_constraints_satisfied
              <=> (check_hard_constraints(caller.matrix) = 0)
        /\ hard_constraints_cost(caller.matrix).total_cost <= loss_after

\* C14's case: a reply after an evolutionary phase that ended with hard cost > 0, and
\* the returned matrix still has conflicts.
C14_Witness ==
    RepliedAfterInfeasibleEvo /\ ~statistics(caller).hard_constraints_satisfied

\* The case the claim leaves out: annealing has removed the last conflict.
C14_WitnessRepaired ==
    RepliedAfterInfeasibleEvo /\ statistics(caller).hard_constraints_satisfied

\* The columns allocation a occupies in candidate c.
ColumnsOf(c, a) == {c.filled[a][k][2] : k \in 1..Len(c.filled[a])}

\* The classroom ids are the column indices, in order.
IdsAreColumns == \A i \in DOMAIN data.classrooms : data.classrooms[i].id = i - 1

\* The schedule built from candidate c has exactly one entry per placed allocation,
\* with duration time slots and the room enumerated at the allocation's column.
EntryPerPlaced(c) ==
    /\ ~schedule_raises(c)
    /\ DOMAIN optimized_schedule(c) = Placed(c)
    /\ \A a \in Placed(c) :
          /\ optimized_schedule(c)[a].allocation = a
          /\ Len(optimized_schedule(c)[a].time_slots) = Duration(a)
          /\ \E col \in Cols :
                /\ ColumnsOf(c, a) = {col}
                /\ optimized_schedule(c)[a].classroom = data.classrooms[col + 1].id

\* C15: the output schedule has exactly one entry for every placed allocation and none
\* for an unplaced one; each entry's classroom is the room of the single column the
\* allocation occupies and its time_slots list has exactly duration elements.
C15_EntryPerPlaced == pc = "placed" => EntryPerPlaced(caller)

\* The same where the classroom ids are 0..R-1 in enumeration order.
C15_EntryPerPlacedIdsInOrder == (pc = "placed" /\ IdsAreColumns) => EntryPerPlaced(caller)

\* C16: every time slot emitted for a placed cell at row r has the (r // 12)-th day
\* name of Monday..Friday and hour 7 + (r % 12), which is in 7..18, and every placed
\* row has its slot, in the order of filled.
C16_SlotOfRow ==
    \A a \in Placed(caller) :
        LET slots == optimized_schedule(caller)[a].time_slots
            cells == caller.filled[a]
        IN  /\ Len(slots) = Len(cells)
            /\ \A k \in 1..Len(cells) :
                  /\ slots[k].day = days[(cells[k][1] \div 12) + 1]
                  /\ slots[k].hour = 7 + (cells[k][1] % 12)
                  /\ slots[k].hour \in 7..18

\* C16's case: a schedule entry with a cell in the last hour of a day, and one with a
\* cell on a later day than Monday.
C16_Witness ==
    /\ \E a \in Placed(caller) : \E k \in 1..Len(caller.filled[a]) :
          /\ caller.filled[a][k][1] % 12 = 11
          /\ optimized_schedule(caller)[a].time_slots[k].hour = 18
    /\ \E a \in Placed(caller) : \E k \in 1..Len(caller.filled[a]) :
          /\ caller.filled[a][k][1] \div 12 > 0
          /\ optimized_schedule(caller)[a].time_slots[k].day # "Monday"

\* The teacher has no teacher_schedules entry (or there is no teacher_schedules at
\* all), or an empty one.
EntryMissing(x) == data.teacher_schedules.is_none \/ x \notin DOMAIN data.teacher_schedules.map
EntryEmpty(x) == ~EntryMissing(x) /\ data.teacher_schedules.map[x] = <<>>

\* The availability rule of the claim for allocation a at row r.
RuleViolated(a, r) ==
    /\ ~EntryMissing(TeacherOf(a))
    /\ ~EntryEmpty(TeacherOf(a))
    /\ \/ map_row_to_schedule(r, data.schedules) = None
       \/ map_row_to_schedule(r, data.schedules)
             \notin Range(data.teacher_schedules.map[TeacherOf(a)])

\* The empty grid with allocation a alone, in the field of row r and column 0.
Alone(a, r) == [EmptyCandidate.matrix EXCEPT ![r][0] = a]
WrongRoom(a) == IF 0 \in possible_classrooms(a) THEN 0 ELSE 1
Bit(b) == IF b THEN 1 ELSE 0

\* C17: a teacher whose teacher_schedules entry is missing or empty is unrestricted for
\* hard_constraints_cost, check_hard_constraints and valid_teacher_group_row alike; a
\* teacher with a non-empty entry is violated at row r exactly when the row's schedule
\* is none or not in the entry. The availability test of each of the three functions
\* gives the rule's answer on every row, so the three agree; where teacher_schedules is
\* given, each function applied to allocation a alone at row r (the row test on the
\* empty grid) counts or refuses exactly the rows the rule forbids; and a relocated
\* allocation lies on rows the rule allows.
C17_AvailabilityAgrees ==
    /\ pc = "start" =>
          \A a \in AllocIdx : \A r \in Rows :
              /\ TeacherUnavailableV(a, r) = RuleViolated(a, r)
              /\ TeacherUnavailableH(a, r) = RuleViolated(a, r)
              /\ TeacherUnavailableC(a, r) = RuleViolated(a, r)
              /\ ~data.teacher_schedules.is_none =>
                    /\ valid_teacher_group_row(EmptyCandidate.matrix, a, r)
                          <=> ~RuleViolated(a, r)
                    /\ hard_constraints_cost(Alone(a, r)).total_cost
                          = WrongRoom(a) + Bit(RuleViolated(a, r))
                    /\ check_hard_constraints(Alone(a, r))
                          = WrongRoom(a) + Bit(RuleViolated(a, r))
    /\ RelocateMoved =>
          \A r \in Range(BlockRows(last.start, Duration(last.a))) : ~RuleViolated(last.a, r)

\* C17's case: an allocation whose teacher has an empty entry has been relocated, and
\* an allocation whose teacher's non-empty entry fits no row of the week is counted.
C17_Witness ==
    /\ RelocateMoved
    /\ EntryEmpty(TeacherOf(last.a))
    /\ \E b \in Placed(cand) :
          /\ ~EntryMissing(TeacherOf(b)) /\ ~EntryEmpty(TeacherOf(b))
          /\ RuleViolated(b, cand.filled[b][1][1])
          /\ check_hard_constraints(cand.matrix) > 0

\* A second case: a teacher without an entry beside a teacher with a non-empty one,
\* both placed, the restricted one on rows of the entry.
C17_WitnessMissing ==
    /\ RelocateMoved
    /\ \E a, b \in Placed(cand) :
          /\ ~data.teacher_schedules.is_none /\ EntryMissing(TeacherOf(a))
          /\ ~EntryMissing(TeacherOf(b)) /\ ~EntryEmpty(TeacherOf(b))
          /\ \E r \in Rows : RuleViolated(b, r)

\* The total length of the lists of an occupancy map, and the total duration of a set
\* of allocations.
TotalRows(space) == SumFn([k \in DOMAIN space |-> Len(space[k])])
TotalDuration(S) == SumFn([a \in S |-> Duration(a)])

\* C18 as claimed: in every candidate, from initial placement on, the class groups'
\* occupied-row lists and the teachers' are as long in total as the durations of all
\* allocations.
C18_RowTotalsOfAll ==
    pc = "placed" =>
        /\ TotalRows(cand.groups_empty_space) = TotalDuration(AllocIdx)
        /\ TotalRows(cand.teachers_empty_space) = TotalDuration(AllocIdx)

\* C18 amended: in every candidate, from initial placement on, the class groups'
\* occupied-row lists and the teachers' are as long in total as the durations of the
\* placed allocations.
C18_RowTotalsOfPlaced ==
    pc = "placed" =>
        /\ TotalRows(cand.groups_empty_space) = TotalDuration(Placed(cand))
        /\ TotalRows(cand.teachers_empty_space) = TotalDuration(Placed(cand))

\* C18's case: after a relocation, with one allocation placed and another left out.
C18_Witness ==
    /\ RelocateMoved
    /\ Placed(cand) # AllocIdx
    /\ TotalDuration(Placed(cand)) > 0

(* ---------------------- callback (consumer.py) ------------------------- *)

\* "if properties.reply_to:": neither None nor the empty string.
Truthy(x) == ~x.is_none /\ x.value # ""

\* The message bodies: bytes that are no JSON, JSON that is no object, and objects
\* with and without a "pattern".
Bodies ==
    {[form |-> "malformed", pattern |-> NoneStr], [form |-> "not_object", pattern |-> NoneStr]}
    \cup {[form |-> "object", pattern |-> x] :
            x \in {NoneStr, Str("test_connection"), Str("optimize_timetable"), Str("other"),
                   Str("process_assignments")}}

Properties ==
    [reply_to : {NoneStr, Str(""), Str("q1"), Str("q2")},
     correlation_id : {NoneStr, Str("c1"), Str("c2")}]

\* What process_optimize_timetable returns: a success or an error reply.
Results == {"success", "error"}

\* The path the try block takes: json.loads raises JSONDecodeError, message.get raises
\* AttributeError, or one of the three branches is entered.
path_of(body) ==
    IF body.form = "malformed" THEN "JSONDecodeError"
    ELSE IF body.form # "object" THEN "Exception"
    ELSE IF body.pattern = Str("test_connection") THEN "test_connection"
    ELSE IF body.pattern = Str("optimize_timetable") THEN "optimize_timetable"
    ELSE "unknown"

\* The status of the result a branch builds.
result_of(body, result) ==
    CASE path_of(body) = "test_connection" -> "success"
      [] path_of(body) = "optimize_timetable" -> result
      [] OTHER -> "error"

\* "{command}" in the f-string: str(command), and None prints as "None".
command_text(body) == IF body.pattern.is_none THEN "None" ELSE body.pattern.value

\* Faulty message: the unknown command is not named.
message_of_any_command(body, result) ==
    CASE path_of(body) = "test_connection" -> <<"Connection established">>
      [] path_of(body) = "optimize_timetable" /\ result = "success" ->
             <<"Timetable optimized successfully">>
      [] path_of(body) = "optimize_timetable" /\ result = "error" ->
             <<"Error optimizing timetable: ", "str(e)">>
      [] OTHER -> <<"Unknown command">>

\* The "message" of the result a branch builds, as the pieces of its f-string (the
\* text of the exception process_optimize_timetable caught is left as "str(e)").
message_of(body, result) ==
    CASE path_of(body) = "test_connection" -> <<"Connection established">>
      [] path_of(body) = "optimize_timetable" /\ result = "success" ->
             <<"Timetable optimized successfully">>
      [] path_of(body) = "optimize_timetable" /\ result = "error" ->
             <<"Error optimizing timetable: ", "str(e)">>
      [] OTHER -> <<"Unknown command: ", command_text(body)>>

\* json.dumps(result): the published body carries the status and the message.
with_message(sent, body, result) ==
    [k \in DOMAIN sent |-> sent[k] @@ [message |-> message_of(body, result)]]

\* Faulty reply: published whether or not the request has a reply address.
reply_without_check(properties, status, publish_raises) ==
    << [call           |-> "basic_publish",
        exchange       |-> "",
        routing_key    |-> properties.reply_to,
        correlation_id |-> properties.correlation_id,
        body           |-> status,
        raised         |-> publish_raises] >>

\* "if properties.reply_to: ch.basic_publish(...)", the same in the three branches.
reply(properties, status, publish_raises) ==
    IF Truthy(properties.reply_to)
    THEN << [call           |-> "basic_publish",
             exchange       |-> "",
             routing_key    |-> properties.reply_to,
             correlation_id |-> properties.correlation_id,
             body           |-> status,
             raised         |-> publish_raises] >>
    ELSE <<>>

\* Faulty callback: basic_ack is the last statement of the try block, not a finally.
callback_calls_ack_in_try(method, properties, body, result, publish_raises, ack_raises) ==
    LET ack == << [call |-> "basic_ack", delivery_tag |-> method.delivery_tag,
                   raised |-> ack_raises] >>
        sent == with_message(reply(properties, result_of(body, result), publish_raises),
                             body, result)
    IN  IF path_of(body) \in {"JSONDecodeError", "Exception"} THEN <<>>
        ELSE IF sent # <<>> /\ publish_raises THEN sent
        ELSE sent \o ack

\* The calls one run of callback makes on the channel: the reply of the branch entered,
\* if any (an exception from basic_publish is logged), then basic_ack in the finally
\* block (an exception from basic_ack is logged).
callback_calls(method, properties, body, result, publish_raises, ack_raises) ==
    LET ack == << [call |-> "basic_ack", delivery_tag |-> method.delivery_tag,
                   raised |-> ack_raises] >>
    IN  IF path_of(body) \in {"JSONDecodeError", "Exception"} THEN ack
        ELSE with_message(reply(properties, result_of(body, result), publish_raises),
                          body, result) \o ack

InitCallback == InitWith({StuckInput})

\* One delivery: pika calls callback(ch, method, properties, body).
callback(properties, body, result, publish_raises, ack_raises) ==
    /\ handled < MaxMessages
    /\ handled' = handled + 1
    /\ delivery' = [delivery_tag |-> handled + 1, properties |-> properties, body |-> body]
    /\ calls' = callback_calls([delivery_tag |-> handled + 1], properties, body, result,
                               publish_raises, ack_raises)
    /\ UNCHANGED <<scVars, data, cand, caller, aliased, pc, last, steps, evoVars, iter,
                   curr_cost, initial_total>>

NextCallback ==
    \E properties \in Properties, body \in Bodies, result \in Results,
       publish_raises \in BOOLEAN, ack_raises \in BOOLEAN :
        callback(properties, body, result, publish_raises, ack_raises)

SpecCallback == InitCallback /\ [][NextCallback]_vars

(* ---------------------- properties of callback ------------------------- *)

AckCalls == {k \in DOMAIN calls : calls[k].call = "basic_ack"}
PublishCalls == {k \in DOMAIN calls : calls[k].call = "basic_publish"}
Acknowledged == {k \in AckCalls : ~calls[k].raised}

C19_WitnessMalformed ==
    handled > 0 /\ path_of(delivery.body) = "JSONDecodeError" /\ Acknowledged # {}
C19_WitnessAckRaises ==
    handled > 0 /\ PublishCalls # {} /\ AckCalls # {} /\ Acknowledged = {}

\* C20: for every message the callback publishes at most one reply; a reply is
\* published only when the request carries a reply address, is routed to exactly that
\* address (on the default exchange) and carries exactly the request's correlation id.
C20_OneReplyToSender ==
    handled > 0 =>
        /\ Cardinality(PublishCalls) <= 1
        /\ \A p \in PublishCalls :
              /\ Truthy(delivery.properties.reply_to)
              /\ calls[p].exchange = ""
              /\ calls[p].routing_key = delivery.properties.reply_to
              /\ calls[p].correlation_id = delivery.properties.correlation_id

\* C20's case: the second message handled has another reply address and correlation
\* id than replies are usually seen with, and its reply has been published.
C20_Witness ==
    /\ handled = MaxMessages
    /\ delivery.properties = [reply_to |-> Str("q2"), correlation_id |-> Str("c2")]
    /\ \E p \in PublishCalls : ~calls[p].raised /\ calls[p].body = "error"

\* No reply address (None or empty): nothing is published on any branch.
C20_WitnessNoAddress ==
    /\ handled > 0
    /\ ~Truthy(delivery.properties.reply_to)
    /\ path_of(delivery.body) \in {"test_connection", "optimize_timetable", "unknown"}
    /\ PublishCalls = {}

(* -------------------- start_consumer (consumer.py) --------------------- *)

\* current_attempt after one pass of the loop body: "current_attempt = 0" once the
\* connection is made, "current_attempt += 1" in the three except blocks that count.
next_attempt_never_reset(attempt, connected, raised) ==
    attempt + (IF raised THEN 1 ELSE 0)

next_attempt(attempt, connected, raised) ==
    (IF connected THEN 0 ELSE attempt) + (IF raised THEN 1 ELSE 0)

\* Faulty backoff: at the cap the delay starts again from 5 seconds.
next_delay_starts_again(delay) ==
    IF delay * 3 >= 2 * max_delay * Ticks THEN 5 * Ticks ELSE (delay * 3) \div 2

\* min(reconnect_delay * 1.5, 60), in ticks.
next_delay(delay) ==
    IF delay * 3 >= 2 * max_delay * Ticks THEN max_delay * Ticks ELSE (delay * 3) \div 2

\* One pass of the while loop: the try block ends as "connected" and "raised" say, the
\* finally block closes what is open, and unless the attempts are used up the
\* consumer sleeps reconnect_delay and raises it.
loop_pass(connected, raised) ==
    /\ consumer = "loop"
    /\ current_attempt < max_reconnect_attempts
    /\ Len(slept) < MaxWaits
    /\ current_attempt' = next_attempt(current_attempt, connected, raised)
    /\ failures' = failures + (IF raised THEN 1 ELSE 0)
    /\ since_connect' = IF raised THEN (IF connected THEN 1 ELSE since_connect + 1) ELSE 0
    /\ IF current_attempt' < max_reconnect_attempts
       THEN /\ slept' = Append(slept, reconnect_delay)
            /\ reconnect_delay' = next_delay(reconnect_delay)
       ELSE UNCHANGED <<slept, reconnect_delay>>
    /\ UNCHANGED <<consumer, handled, delivery, calls, data, cand, caller, aliased, pc, last,
                   steps, evoVars, iter, curr_cost, initial_total>>

\* create_connection_and_channel raises (AMQPConnectionError or another exception).
ConnectFails == loop_pass(FALSE, TRUE)

\* The connection is made and start_consuming raises (StreamLostError,
\* AMQPConnectionError or another exception).
ConnectionLost == loop_pass(TRUE, TRUE)

\* The connection is made and start_consuming returns.
ConsumingReturns == loop_pass(TRUE, FALSE)

\* KeyboardInterrupt, before or after the connection is made: break.
Interrupted ==
    /\ consumer = "loop"
    /\ current_attempt < max_reconnect_attempts
    /\ consumer' = "interrupted"
    /\ UNCHANGED <<current_attempt, reconnect_delay, slept, failures, since_connect,
                   handled, delivery, calls, data, cand, caller, aliased, pc, last,
                   steps, evoVars, iter, curr_cost, initial_total>>

\* The loop condition fails: "Max reconnection attempts reached. Exiting."
GiveUp ==
    /\ consumer = "loop"
    /\ current_attempt >= max_reconnect_attempts
    /\ consumer' = "gave_up"
    /\ UNCHANGED <<current_attempt, reconnect_delay, slept, failures, since_connect,
                   handled, delivery, calls, data, cand, caller, aliased, pc, last,
                   steps, evoVars, iter, curr_cost, initial_total>>

InitConsumer == InitWith({StuckInput})

NextConsumer ==
    \/ ConnectFails
    \/ ConnectionLost
    \/ ConsumingReturns
    \/ Interrupted
    \/ GiveUp

SpecConsumer == InitConsumer /\ [][NextConsumer]_vars

(* -------------------- properties of start_consumer --------------------- *)

\* The delays slept are 5 s, then each 1.5 times the one before, capped at 60 s.
BackoffSequence ==
    /\ \A k \in DOMAIN slept :
          /\ slept[k] <= max_delay * Ticks
          /\ k = 1 => slept[k] = 5 * Ticks
          /\ k > 1 => \/ 2 * slept[k] = 3 * slept[k - 1]
                      \/ slept[k] = max_delay * Ticks /\ 3 * slept[k - 1] > 2 * slept[k]
    /\ reconnect_delay <= max_delay * Ticks
    /\ reconnect_delay >= 5 * Ticks

\* C21 as claimed: the reconnect delay starts at 5 seconds, is multiplied by 1.5 after
\* each wait and never exceeds 60 seconds, and the consumer retries no more once 10
\* attempts have failed.
C21_TenFailedAttempts ==
    /\ BackoffSequence
    /\ failures >= max_reconnect_attempts => current_attempt >= max_reconnect_attempts

\* C21 amended: the reconnect delay starts at 5 seconds, is multiplied by 1.5 after
\* each wait and never exceeds 60 seconds (it is never set back); the consumer stops
\* retrying after 10 failed attempts in a row, the count starting again at every
\* successful connection.
C21_TenFailedInARow ==
    /\ BackoffSequence
    /\ current_attempt = since_connect
    /\ since_connect <= max_reconnect_attempts
    /\ since_connect <= failures
    /\ consumer = "gave_up" => since_connect = max_reconnect_attempts
    /\ consumer = "interrupted" => since_connect < max_reconnect_attempts

\* C21's case: the consumer has given up after more than 10 failed attempts in all,
\* having slept the capped delay.
C21_Witness ==
    /\ consumer = "gave_up"
    /\ failures > max_reconnect_attempts
    /\ \E k \in DOMAIN slept : slept[k] = max_delay * Ticks

\* Ten failures from the start: nine waits, the last of 60 s, and the consumer stops.
C21_WitnessTenFromStart ==
    /\ consumer = "gave_up"
    /\ failures = max_reconnect_attempts
    /\ Len(slept) = max_reconnect_attempts - 1

(* --------------- more properties of optimize_timetable ----------------- *)

\* The request has an allocation with no admissible classroom or one longer than a day.
DataErrorInput ==
    \E a \in AllocIdx : possible_classrooms(a) = {} \/ Duration(a) > SLOTS

\* C22: an optimize request with an allocation whose possible_classrooms is empty, or
\* whose duration is above 12, is answered with an error reply (as one with a missing
\* foreign key is), and every exception raised on the way becomes such a reply.
C22_DataErrorIsErrorReply ==
    (Replied /\ DataErrorInput) => reply_status = "error"

(* ---------------- more properties of initial_population ---------------- *)

RECURSIVE placed_before(_)
\* The candidate initial_population works on when it comes to allocation a: the
\* allocations before a have been given their cells.
placed_before(a) ==
    IF a = 0 THEN EmptyCandidate
    ELSE LET c           == placed_before(a - 1)
             start_field == scan_initial(c.free, Range(c.free), a - 1, 0)
         IN  IF start_field = NoField THEN c ELSE place_initial(c, a - 1, start_field)

\* The three conditions of initial placement for allocation a at a cell of free: the
\* block lies inside one day, the column is admissible, all duration cells are free.
Satisfies(free, a, cell) ==
    /\ cell[1] \div SLOTS = (cell[1] + Duration(a) - 1) \div SLOTS
    /\ cell[2] \in possible_classrooms(a)
    /\ \A i \in 0..(Duration(a) - 1) : <<cell[1] + i, cell[2]>> \in Range(free)

\* The same with the day test the code makes (start % 12 <= end % 12).
SatisfiesAsTested(free, a, cell) ==
    /\ cell[1] % SLOTS <= (cell[1] + Duration(a) - 1) % SLOTS
    /\ cell[2] \in possible_classrooms(a)
    /\ \A i \in 0..(Duration(a) - 1) : <<cell[1] + i, cell[2]>> \in Range(free)

\* Allocation a has got the first cell of free, in free's order, that Ok accepts, and
\* no cell if there is none.
FirstFit(a, Ok(_, _, _)) ==
    LET free == placed_before(a).free
        hits == {k \in DOMAIN free : Ok(free, a, free[k])}
    IN  IF hits = {} THEN a \notin Placed(cand)
        ELSE /\ a \in Placed(cand)
             /\ cand.filled[a] = Block(free[CHOOSE k \in hits : \A m \in hits : k <= m],
                                       Duration(a))

\* C23: initial placement gives each allocation, in iteration order, the first cell in
\* free's current order that satisfies all three conditions (block inside one day,
\* column admissible, all duration cells free), and leaves it unplaced only if no
\* free cell satisfies them at that moment.
C23_FirstFit ==
    last.op = "initial_population" => \A a \in AllocIdx : FirstFit(a, Satisfies)

\* The same for the allocations of at most 12 hours.
C23_FirstFitUpToTwelve ==
    last.op = "initial_population" =>
        \A a \in AllocIdx : Duration(a) <= SLOTS => FirstFit(a, Satisfies)

\* The same with the day test as the code makes it.
C23_FirstFitAsTested ==
    last.op = "initial_population" => \A a \in AllocIdx : FirstFit(a, SatisfiesAsTested)

(* --------------------- more properties of the costs -------------------- *)

\* C24: in hard_constraints_cost every same-row teacher conflict and every same-row
\* group conflict between two occupied cells adds 1 to the per-allocation count of both
\* allocations of the pair, so the count of an allocation is the number of violations
\* it takes part in, and is 0 only if it takes part in none.
C24_BothSidesCredited ==
    \A a \in AllocIdx :
        /\ hard_constraints_cost(cand.matrix).cost_allocation[a] = Contribution(cand, a)
        /\ hard_constraints_cost(cand.matrix).cost_allocation[a] = 0
              => Contribution(cand, a) = 0

(* ------------- more properties of valid_teacher_group_row -------------- *)

\* The row test of the claim: the teacher is available at row r and no allocation
\* other than a in row r has a's teacher or a's group.
ValidIgnoringOwn(matrix, a, r) ==
    /\ ~RuleViolated(a, r)
    /\ \A j \in Cols :
          (matrix[r][j] # None /\ matrix[r][j] # a) =>
             /\ TeacherOf(a) # TeacherOf(matrix[r][j])
             /\ GroupOf(a) # GroupOf(matrix[r][j])

\* C25: valid_teacher_group_row(a, r) ignores a's own cells: row r is rejected for a
\* conflict only when an allocation other than a in row r has a's teacher or group, so
\* a row that a occupies alone passes the test.
C25_OwnCellsIgnored ==
    \A a \in AllocIdx : \A r \in Rows :
        valid_teacher_group_row(cand.matrix, a, r) <=> ValidIgnoringOwn(cand.matrix, a, r)

\* What the code does instead: no row that a occupies passes the test for a.
C25_OwnRowsRejected ==
    \A a \in Placed(cand) : \A k \in DOMAIN cand.filled[a] :
        ~valid_teacher_group_row(cand.matrix, a, cand.filled[a][k][1])

(* ------------------- properties of the idle-gap costs ------------------ *)

\* The occupied-row lists of the candidate, of the groups and of the teachers.
OccupancyLists ==
    {cand.groups_empty_space[g] : g \in DOMAIN cand.groups_empty_space}
    \cup {cand.teachers_empty_space[x] : x \in DOMAIN cand.teachers_empty_space}

Sorted(times) == SortSeq(times, LAMBDA x, y : x < y)

\* The idle hours between two occupied rows a < b: b - a - 1 on the same day when
\* b - a > 1, else 0.
Gap(a, b) == IF a \div SLOTS = b \div SLOTS /\ b - a > 1 THEN b - a - 1 ELSE 0

\* The gaps of the consecutive pairs (s[i], s[i+1]) of a sorted list for i in lo..hi,
\* in all and for the pairs of day d.
GapsOf(s, lo, hi) == SumFn([i \in lo..hi |-> Gap(s[i], s[i + 1])])
GapsOfDay(s, lo, hi, d) ==
    SumFn([i \in {i \in lo..hi : s[i] \div SLOTS = d} |-> Gap(s[i], s[i + 1])])

\* The total, and the tally of day d, the cost function gives for one list alone.
CostOfList(times) == empty_space_cost((1 :> times)).cost

\* C26 as claimed: the idle-gap cost of a group or teacher leaves out both ends of
\* the sorted list, the gap between the first two rows and the gap between the last
\* two; every other same-day consecutive pair a < b with b - a > 1 adds b - a - 1 to
\* the total and to the day's tally.
C26_BothEndsExcluded ==
    \A times \in OccupancyLists :
        /\ CostOfList(times) = GapsOf(Sorted(times), 2, Len(times) - 2)
        /\ \A d \in 0..4 :
              empty_per_day(Sorted(times))[d] = GapsOfDay(Sorted(times), 2, Len(times) - 2, d)

\* C26 amended: the idle-gap cost of a group or teacher leaves out the last pair of
\* the sorted list only: the gap between the last two rows is never counted, the gap
\* between the first two is (when the list has three rows or more), and every
\* same-day consecutive pair a < b but the last with b - a > 1 adds b - a - 1 to the
\* total and to the day's tally.
C26_LastPairExcluded ==
    /\ \A times \in OccupancyLists :
          /\ CostOfList(times) = GapsOf(Sorted(times), 1, Len(times) - 2)
          /\ \A d \in 0..4 :
                empty_per_day(Sorted(times))[d]
                   = GapsOfDay(Sorted(times), 1, Len(times) - 2, d)
    /\ empty_space_cost(cand.groups_empty_space).cost
          = SumFn([g \in DOMAIN cand.groups_empty_space
                      |-> CostOfList(cand.groups_empty_space[g])])
    /\ empty_space_cost(cand.teachers_empty_space).cost
          = SumFn([x \in DOMAIN cand.teachers_empty_space
                      |-> CostOfList(cand.teachers_empty_space[x])])

\* C26's case: after a relocation a list of three rows or more has a gap between its
\* first two rows, and the cost counts it.
C26_Witness ==
    /\ RelocateMoved
    /\ \E times \in OccupancyLists :
          /\ Len(times) >= 3
          /\ Gap(Sorted(times)[1], Sorted(times)[2]) > 0
          /\ CostOfList(times) >= Gap(Sorted(times)[1], Sorted(times)[2])

\* The other end: a gap between the last two rows, which the cost leaves out.
C26_WitnessLastPair ==
    \E times \in OccupancyLists :
        /\ Len(times) >= 3
        /\ Gap(Sorted(times)[Len(times) - 1], Sorted(times)[Len(times)]) > 0
        /\ CostOfList(times) = 0

\* A gap in the middle of a list of four rows.
C26_WitnessMiddle ==
    \E times \in OccupancyLists :
        /\ Len(times) >= 4
        /\ Gap(Sorted(times)[2], Sorted(times)[3]) > 0
        /\ CostOfList(times) > 0

\* The occupancy maps of the candidate.
OccupancyMaps == {cand.groups_empty_space, cand.teachers_empty_space}

\* The multiset of a list of rows.
RowBag(times) == [r \in Range(times) |-> Cardinality({i \in DOMAIN times : times[i] = r})]

\* The tallies of the days of all keys of a map, by the rule of the scanned pairs.
Tallies(space) ==
    {GapsOfDay(Sorted(space[k]), 1, Len(space[k]) - 2, d) : k \in DOMAIN space, d \in 0..4}

\* C27: for a map without keys (zero groups, or zero teachers) the soft-cost function
\* returns (0, 0, 0); otherwise it returns the total gap count, the greatest per-day
\* tally over all keys and days, and the total divided by the number of keys of the map,
\* the groups without a placed allocation included; the lists it leaves behind hold the
\* same rows as before, as multisets.
C27_SoftCostFigures ==
    \A space \in OccupancyMaps :
        LET r == empty_space_cost(space)
        IN  /\ DOMAIN space = {} => r.cost = 0 /\ r.max_empty = 0 /\ r.avg_num = 0
            /\ DOMAIN space # {} =>
                  /\ r.cost = SumFn([k \in DOMAIN space
                                        |-> GapsOf(Sorted(space[k]), 1, Len(space[k]) - 2)])
                  /\ r.max_empty \in Tallies(space) \cup {0}
                  /\ \A x \in Tallies(space) : x <= r.max_empty
                  /\ r.avg_num = r.cost
                  /\ r.avg_den = Cardinality(DOMAIN space)
                  /\ r.avg_den >= Cardinality({k \in DOMAIN space : space[k] # <<>>})
            /\ DOMAIN sorted_space(space) = DOMAIN space
            /\ \A k \in DOMAIN space :
                  /\ RowBag(sorted_space(space)[k]) = RowBag(space[k])
                  /\ Len(sorted_space(space)[k]) = Len(space[k])

\* C27's case: after a relocation the groups have idle hours, one group has no row at
\* all, and the average is taken over all three groups.
C27_Witness ==
    /\ RelocateMoved
    /\ empty_space_cost(cand.groups_empty_space).cost > 0
    /\ \E g \in DOMAIN cand.groups_empty_space : cand.groups_empty_space[g] = <<>>
    /\ empty_space_cost(cand.groups_empty_space).avg_den = 3

\* The request without groups and teachers: both maps are empty.
C27_WitnessNoKeys ==
    /\ pc = "placed"
    /\ cand.groups_empty_space = <<>>
    /\ cand.teachers_empty_space = <<>>
    /\ empty_space_cost(cand.groups_empty_space).avg_num = 0

\* A list that is out of order before the cost function sorts it.
C27_WitnessUnsorted ==
    \E space \in OccupancyMaps : \E k \in DOMAIN space :
        sorted_space(space)[k] # space[k]

(* ------------------ properties of the annealing loop ------------------- *)

\* A step that is one iteration of the loop of simulated_hardening.
AnnealIteration == pc = "anneal" /\ iter' = iter + 1

\* The candidates one iteration can produce from c by its relocations and the sort of
\* the cost functions (c itself when the iteration relocates nothing).
Mutations(c) ==
    IF NumAllocs \div 4 = 0 THEN {with_sorted_lists(c)}
    ELSE {with_sorted_lists(mutate_each(c, picks)) : picks \in AnnealPicks}

\* C28: a rejected annealing iteration leaves the working candidate equal to the
\* snapshot taken at the start of the iteration in all five structures (matrix, free,
\* filled, both occupancy maps) and the current cost as it was; an accepted iteration
\* keeps the mutated candidate and makes its cost the current cost.
C28_RejectRestoresAcceptKeeps ==
    [][AnnealIteration =>
          /\ last'.op \in {"reject", "accept"}
          /\ last'.op = "reject" =>
                /\ cand'.matrix = cand.matrix
                /\ cand'.free = cand.free
                /\ cand'.filled = cand.filled
                /\ cand'.groups_empty_space = cand.groups_empty_space
                /\ cand'.teachers_empty_space = cand.teachers_empty_space
                /\ curr_cost' = curr_cost
                /\ \E m \in Mutations(cand) : FracLess(curr_cost, group_average(m))
          /\ last'.op = "accept" =>
                /\ cand' \in Mutations(cand)
                /\ curr_cost' = group_average(cand')]_vars

\* C28's case: an iteration was rejected after it had moved a class: the candidate the
\* loop works on is the snapshot, not the mutated one the caller still holds.
C28_Witness ==
    /\ pc = "anneal"
    /\ last.op = "reject"
    /\ caller.matrix # cand.matrix
    /\ caller.groups_empty_space # cand.groups_empty_space

\* An accepted iteration that moved a class and changed the current cost.
C28_WitnessAccepted ==
    /\ pc = "anneal"
    /\ last.op = "accept"
    /\ last.a # None
    /\ curr_cost.num > 0

(* ---------------- properties of the evolutionary phase ----------------- *)

\* The evolutionary phase: inside the while loop of a run, or between two runs.
InEvoPhase == pc \in {"evo", "evo_end"}

\* The candidate has hard cost 0 by both measures.
HardCostZero ==
    /\ hard_constraints_cost(cand.matrix).total_cost = 0
    /\ check_hard_constraints(cand.matrix) = 0

\* C29: once an iteration of the evolutionary phase observes hard cost 0 (total 0 and
\* check 0), no relocation is made in the rest of the phase, in that run or in a later
\* one: from a candidate of hard cost 0 the phase takes no mutation iteration, leaves
\* the candidate as it is, and so finds hard cost 0 again at the top of every later run.
C29_NoRelocationAfterFound ==
    [][(InEvoPhase /\ HardCostZero) =>
          /\ last'.op # "evo_iter"
          /\ cand' = cand
          /\ pc' \in {"evo", "evo_end", "error", "stats"}
          /\ (pc = "evo" /\ stagnation < max_stagnation)
                => (pc' = "evo_end" /\ last'.op = "found")]_vars

\* C29's case: the optimum was found in a first run after a relocation had reached it,
\* and is found again, with the same candidate, in a later run.
C29_Witness ==
    /\ pc = "evo_end"
    /\ last.op = "found"
    /\ run >= 1
    /\ loss_after # None
    /\ initial_total # 0

\* The allocations whose cells differ between the candidate before and after a step.
CellsOf(c, a) == IF a \in DOMAIN c.filled THEN c.filled[a] ELSE <<>>
Moved == {a \in AllocIdx : CellsOf(cand, a) # CellsOf(cand', a)}

\* The per-allocation costs of the candidate before the step.
CostBefore == hard_constraints_cost(cand.matrix).cost_allocation

\* a is among the first floor(N / 4) allocations by cost, highest first, equal costs
\* in index order.
AmongFirstQuarter(a) ==
    Cardinality({b \in AllocIdx : \/ CostBefore[b] > CostBefore[a]
                                  \/ (CostBefore[b] = CostBefore[a] /\ b < a)})
        < NumAllocs \div 4

\* The allocation an evolutionary iteration called the relocation on, if any.
Relocated == IF last'.a = None THEN {} ELSE {last'.a}

\* C30: an evolutionary iteration calls the relocation only on allocations that are
\* among the first floor(N / 4) of the N allocations by per-allocation cost, highest
\* first, and have a per-allocation cost above 0, and only when the draw u < sigma came
\* out true; no other allocation is moved.
C30_OnlyCostlyFirstQuarter ==
    [][(pc = "evo" /\ last'.op = "evo_iter") =>
          /\ \A a \in Relocated : AmongFirstQuarter(a) /\ CostBefore[a] > 0
          /\ Relocated \subseteq TopQuarter(cand)
          /\ Cardinality(Relocated) <= NumAllocs \div 4
          /\ Moved \subseteq Relocated
          /\ Relocated = {} => cand' = cand
          /\ SigmaAtLeastOne(sigma_k) =>
                Relocated = {a \in TopQuarter(cand) : CostBefore[a] > 0}]_vars

\* C30's case: an iteration has relocated the costliest of four allocations and moved
\* it (hard cost came down to the value the iteration stored).
C30_Witness ==
    /\ last.op = "evo_iter"
    /\ last.a # None
    /\ NumAllocs \div 4 = 1
    /\ loss_after # None
    /\ loss_after < initial_total

\* The draw came out false: sigma is below 1, the first quarter holds an allocation of
\* cost above 0, and the iteration relocated nothing.
C30_WitnessNotDrawn ==
    /\ last.op = "evo_iter"
    /\ last.a = None
    /\ ~SigmaAtLeastOne(sigma_k)
    /\ \E a \in TopQuarter(cand) : hard_constraints_cost(cand.matrix).cost_allocation[a] > 0

\* Fewer than four allocations: the first quarter is empty and nothing is relocated
\* although the hard cost is above 0.
C30_WitnessNoQuarter ==
    /\ last.op = "evo_iter"
    /\ last.a = None
    /\ NumAllocs \div 4 = 0
    /\ hard_constraints_cost(cand.matrix).total_cost > 0

(* ------------------- requests of fewer than four classes --------------- *)

\* The candidate as initial_population leaves it.
InitialPlacement == initial_population(EmptyCandidate)

\* The search phases and the return of optimize_timetable.
InSearch == pc \in {"evo", "evo_end", "stats", "anneal", "returned"}

\* C31 as claimed: with fewer than 4 allocations the candidate the search returns
\* equals the initial placement (in all of its structures), with the hard-cost
\* conflicts initial placement left.
C31_ReturnsInitialPlacement ==
    (NumAllocs < 4 /\ pc = "returned") =>
        /\ caller = InitialPlacement
        /\ check_hard_constraints(caller.matrix)
              = check_hard_constraints(InitialPlacement.matrix)

\* C31 amended: with fewer than 4 allocations neither phase calls the relocation; the
\* candidate of the search, and the one it returns, equals the initial placement in
\* matrix, free and filled, and in the occupancy lists up to their order (the cost
\* functions sort them); every hard-cost conflict of the initial placement is in the
\* result.
C31_ReturnsInitialPlacementSorted ==
    (NumAllocs < 4 /\ InSearch) =>
        /\ last.op \in {"evo_iter", "accept"} => last.a = None
        /\ last.op # "reject"
        /\ aliased /\ caller = cand
        /\ cand.matrix = InitialPlacement.matrix
        /\ cand.free = InitialPlacement.free
        /\ cand.filled = InitialPlacement.filled
        /\ with_sorted_lists(cand) = with_sorted_lists(InitialPlacement)
        /\ pc \in {"anneal", "returned"} => cand = with_sorted_lists(InitialPlacement)
        /\ pc = "returned" =>
              check_hard_constraints(caller.matrix)
                 = check_hard_constraints(InitialPlacement.matrix)

\* C31's case: the search has returned for a request of fewer than 4 classes whose
\* initial placement has a conflict; the conflict is in the result.
C31_Witness ==
    /\ pc = "returned"
    /\ NumAllocs \in 1..3
    /\ check_hard_constraints(InitialPlacement.matrix) > 0
    /\ check_hard_constraints(caller.matrix) > 0
    /\ caller.filled = InitialPlacement.filled

\* The same with occupancy lists that were booked out of order and come back sorted.
C31_WitnessSorted ==
    /\ pc = "returned"
    /\ NumAllocs \in 1..3
    /\ caller.groups_empty_space # InitialPlacement.groups_empty_space

(* ------------------- properties of the adaptation of sigma ------------- *)

\* A step that is one iteration of the while loop past the optimality test.
EvoStep == pc = "evo" /\ last'.op = "evo_iter" /\ t' = t + 1

\* The iteration of the step has lowered the hard cost.
Improving == loss_after' < hard_constraints_cost(cand.matrix).total_cost

\* The success counter as the adaptation reads it, this iteration included.
Counter == cost_stats + (IF Improving THEN 1 ELSE 0)

\* The step ends at an adaptation point: t >= 10n and t divisible by n.
AtAdaptation == t' >= 10 * n /\ t' % n = 0

\* The number of iterations of the run since the counter was last set to 0.
Window(tt) == IF tt < 10 * n THEN tt ELSE tt % n

\* C32 as claimed, in what it says of the counter: at every adaptation point the
\* counter holds the number of improving iterations among the last n iterations of the
\* run, so it is at most n, and it is 0 when none of the last n iterations improved.
C32_CounterOfLastN ==
    [][(EvoStep /\ AtAdaptation) =>
          /\ Counter <= n
          /\ stagnation' >= n => Counter = 0]_vars

\* C32 amended: sigma changes only in an iteration that ends with t >= 10n and t
\* divisible by n; there the counter holds the number of improving iterations since it
\* was last reset, which are the last n iterations at every point but the first of a
\* run and the first 10n iterations at the first (t = 10n); sigma is multiplied by 0.85
\* if that number is below 2n and divided by 0.85 otherwise, and the counter is reset
\* to 0.
C32_AdaptationOfSigma ==
    [][/\ sigma_k' # sigma_k => (EvoStep /\ AtAdaptation)
       /\ EvoStep =>
             /\ cost_stats <= Window(t)
             /\ cost_stats > 0 => stagnation < Window(t)
             /\ cost_stats = 0 => stagnation >= Window(t)
             /\ Improving <=> stagnation' = 0
             /\ ~Improving => stagnation' = stagnation + 1
             /\ AtAdaptation =>
                   /\ cost_stats' = 0
                   /\ Counter < 2 * n => sigma_k' = sigma_k + 1
                   /\ Counter >= 2 * n => sigma_k' = sigma_k - 1
                   /\ t' > 10 * n => Counter <= n
             /\ ~AtAdaptation => (cost_stats' = Counter /\ sigma_k' = sigma_k)]_vars

\* C32's case: the first adaptation point of a run, with six improving iterations
\* counted, none of them among the last n: sigma has been divided by 0.85.
C32_Witness ==
    /\ pc = "evo"
    /\ last.op = "evo_iter"
    /\ t = 10 * n
    /\ stagnation >= n
    /\ sigma_k = -1
    /\ cost_stats = 0

\* A later adaptation point: sigma has been multiplied by 0.85.
C32_WitnessLater ==
    /\ pc = "evo"
    /\ last.op = "evo_iter"
    /\ t = 11 * n
    /\ sigma_k = 0
    /\ data = ClimbInput
    /\ run = 0

\* C33: within a run sigma can be divided by 0.85 (its exponent lowered) only at the
\* first adaptation point, t = 10n, where the counter holds the successes of the first
\* 10n iterations; at every later adaptation point of the run the counter is at most
\* n, which is below 2n, so sigma is multiplied by 0.85; from t = 10n to the end of the
\* run sigma never grows.
C33_DivisionOnlyAtFirstPoint ==
    [][/\ sigma_k' < sigma_k =>
             (EvoStep /\ t' = 10 * n /\ Counter >= 2 * n /\ Counter <= 10 * n)
       /\ (EvoStep /\ AtAdaptation /\ t' > 10 * n) =>
             (Counter <= n /\ n < 2 * n /\ sigma_k' = sigma_k + 1)
       /\ (InEvoPhase /\ t >= 10 * n /\ run' = run) => sigma_k' >= sigma_k]_vars

\* C33's case: a run whose first adaptation point divided sigma by 0.85 and whose next
\* two points multiplied it: the exponent went 0, -1, 0, 1.
C33_Witness ==
    /\ data = ClimbInput
    /\ pc = "evo"
    /\ run = 0
    /\ t = 12 * n
    /\ sigma_k = 1
    /\ cost_stats = 0

(* --------------- termination of the evolutionary phase ----------------- *)

\* The evolutionary phase is over: the prints raised, or the fifth run has ended.
EvoPhaseOver == pc \in {"error", "stats", "anneal", "returned"}

\* C34, the count of the runs: when the evolutionary phase is over there have been
\* exactly run_times = 5 runs.
C34_ExactlyFiveRuns == EvoPhaseOver => run = run_times

\* The rest of C34, step by step: stagnation is set to 0 only by an iteration that
\* lowers the hard cost and raised by one by every other iteration; a run ends when
\* stagnation reaches max_stagnation or the optimum is found; t, stagnation and the
\* success counter are 0 at the start of every run, sigma is carried over; the phase
\* ends after run_times runs unless the prints after a run raise.
C34_RunsAndCounters ==
    [][/\ EvoStep =>
             /\ stagnation < max_stagnation
             /\ stagnation' = (IF Improving THEN 0 ELSE stagnation + 1)
             /\ pc' = (IF stagnation' >= max_stagnation THEN "evo_end" ELSE "evo")
             /\ run' = run
       /\ (pc = "evo" /\ pc' = "evo_end") =>
             (stagnation' >= max_stagnation \/ (last'.op = "found" /\ HardCostZero))
       /\ (pc = "evo_end" /\ pc' # "error") =>
             /\ run' = run + 1 /\ t' = 0 /\ stagnation' = 0 /\ cost_stats' = 0
             /\ sigma_k' = sigma_k
             /\ pc' = (IF run' < run_times THEN "evo" ELSE "stats")
       /\ (pc = "evo_end" /\ pc' = "error") => loss_after = None
       /\ (pc = "placed" /\ pc' = "evo") =>
             (run' = 0 /\ t' = 0 /\ stagnation' = 0 /\ cost_stats' = 0 /\ sigma_k' = 0)
       /\ (InEvoPhase /\ pc' = "stats") => run' = run_times]_vars

\* The bound of the termination: a run has at most max_stagnation iterations for every
\* value the hard cost takes, and there are at most run_times runs.
C34_BoundedPhase ==
    InEvoPhase =>
        /\ run <= run_times
        /\ pc = "evo" => run < run_times
        /\ stagnation <= max_stagnation
        /\ stagnation <= t
        /\ t <= (initial_total + 1) * max_stagnation

\* The measure of the termination: inside a run the hard cost never rises, and with
\* it the pair (hard cost, max_stagnation - stagnation) goes down in every iteration.
C34_Measure ==
    [][EvoStep =>
          /\ loss_after' <= hard_constraints_cost(cand.matrix).total_cost
             \/ stagnation' = stagnation + 1
          /\ loss_after' = hard_constraints_cost(cand'.matrix).total_cost
          /\ Improving \/ stagnation' > stagnation]_vars

(* ------------------- the course of the annealing loop ------------------ *)

\* The temperature of the k-th iteration, 0.5 * 0.99^k, by its decimal logarithm in
\* millionths (rounded down), and the logarithm of a value below which a float is 0.
LogInitialTemperature == -301030
LogCooling == -4365
LogSmallestFloat == -323000000
LogTemperature(k) == LogInitialTemperature + k * LogCooling

RECURSIVE After(_, _)
\* The candidates that exactly k calls of the relocation, on any allocation indices,
\* can make of c.
After(c, k) ==
    IF k = 0 THEN {c}
    ELSE UNION {After(mutate_ideal_spot(c, a), k - 1) : a \in AllocIdx}

\* The candidates after the relocations of one annealing iteration and the sort of the
\* cost functions.
AfterIteration(c) == {with_sorted_lists(m) : m \in After(c, NumAllocs \div 4)}

C35_WitnessRelocation ==
    /\ pc = "anneal"
    /\ iter > 0
    /\ NumAllocs \div 4 = 1
    /\ last.op = "accept"
    /\ last.a \in AllocIdx

(* ------------------- the acceptance of an iteration -------------------- *)

\* The group figure of candidate m is above, or equal to, the current cost.
Worse(m) == group_average(m).num * curr_cost.den > curr_cost.num * group_average(m).den
Equal(m) == group_average(m).num * curr_cost.den = curr_cost.num * group_average(m).den

\* C36: an annealing iteration is accepted if new < current or u <= exp((current -
\* new) / T), and rejected otherwise: an iteration whose group cost is below or equal
\* to the current cost is always accepted (exp(0) = 1 >= u), a rejected iteration is
\* one with new > current, and an accepted one makes its cost the current cost.
C36_AcceptanceRule ==
    [][AnnealIteration =>
          /\ last'.op = "reject" =>
                /\ \E m \in AfterIteration(cand) : Worse(m)
                /\ aliased => Worse(caller')
                /\ curr_cost' = curr_cost
          /\ (\A m \in AfterIteration(cand) : ~Worse(m)) => last'.op = "accept"
          /\ last'.op = "accept" =>
                /\ curr_cost' = group_average(cand')
                /\ cand' \in AfterIteration(cand)]_vars

\* C36's case: an iteration that made the group cost rise has been rejected.
C36_Witness ==
    /\ pc = "anneal"
    /\ last.op = "reject"
    /\ iter = 1
    /\ Worse(caller)
    /\ ~Worse(cand) /\ Equal(cand)

\* An iteration that made the group cost rise has been accepted (the draw was low
\* enough): the first iteration, which starts from cost 0 on these requests.
C36_WitnessWorseAccepted ==
    /\ pc = "anneal"
    /\ last.op = "accept"
    /\ iter = 1
    /\ curr_cost.num > 0

\* An iteration that moved a class and left the group cost as it was, accepted.
C36_WitnessEqualAccepted ==
    /\ pc = "anneal"
    /\ last.op = "accept"
    /\ last.a # None
    /\ iter = 1
    /\ curr_cost.num = 0
    /\ cand.matrix # InitialPlacement.matrix

(* ------------- what the decision of an iteration depends on ------------ *)

\* The average-per-week figure of the teachers of candidate c, as a fraction.
TeacherAverage(c) ==
    [num |-> empty_space_cost(c.teachers_empty_space).avg_num,
     den |-> empty_space_cost(c.teachers_empty_space).avg_den]

\* Candidate m with other teacher occupancy lists.
WithTeachers(m, lists) == [m EXCEPT !.teachers_empty_space = lists]

\* Teacher occupancy lists to compare with: none, those before the iteration, and for
\* every teacher a Monday with a two-hour gap or a week without gaps.
TeacherLists(m) ==
    LET keys == DOMAIN m.teachers_empty_space
    IN  {cand.teachers_empty_space, caller.teachers_empty_space,
         [k \in {} |-> <<>>],
         [k \in keys |-> <<>>],
         [k \in keys |-> <<0, 3, 4>>],
         [k \in keys |-> <<0, 1, 2>>]}

\* The outcomes the draw can give an iteration whose mutated candidate is m.
Decisions(m) ==
    IF FracLess(curr_cost, group_average(m)) THEN {"accept", "reject"} ELSE {"accept"}

\* C37: the accept/reject decision of an annealing iteration depends on the group
\* average-per-week figure only: whatever teacher occupancy lists stand in the place of
\* those of the mutated candidate, the outcomes open to the iteration are the same, and
\* the outcome it takes is among them.
C37_DecisionByGroupFigure ==
    [][AnnealIteration =>
          /\ \A m \in AfterIteration(cand) : \A lists \in TeacherLists(m) :
                Decisions(WithTeachers(m, lists)) = Decisions(m)
          /\ \E m \in AfterIteration(cand) :
                /\ last'.op = "accept" => cand' = m
                /\ last'.op = "reject" /\ aliased => caller' = m
                /\ \A lists \in TeacherLists(m) :
                      last'.op \in Decisions(WithTeachers(m, lists))
          /\ last'.op = "accept" =>
                \A lists \in TeacherLists(cand') :
                    curr_cost' = group_average(WithTeachers(cand', lists))]_vars

\* C37's case: an iteration whose relocation raised the teachers' figure and left the
\* groups' figure at 0 has been accepted.
C37_Witness ==
    /\ pc = "anneal"
    /\ last.op = "accept"
    /\ last.a # None
    /\ curr_cost.num = 0
    /\ TeacherAverage(cand).num > 0

\* An iteration that raised the groups' figure and left the teachers' figure as it was
\* has been rejected.
C37_WitnessRejected ==
    /\ pc = "anneal"
    /\ last.op = "reject"
    /\ iter = 1
    /\ FracLess(group_average(cand), group_average(caller))
    /\ TeacherAverage(caller) = TeacherAverage(cand)

(* ------------------------ the placed allocations ----------------------- *)

\* Candidate c holds exactly the allocations initial placement placed, each with one
\* field per hour, all in one room on consecutive rows, and the matrix agrees.
SamePlacedAsInitially(c) ==
    /\ Placed(c) = Placed(InitialPlacement)
    /\ \A a \in Placed(c) :
          /\ Len(c.filled[a]) = Duration(a)
          /\ \A k \in 1..Duration(a) :
                /\ c.filled[a][k] = <<c.filled[a][1][1] + k - 1, c.filled[a][1][2]>>
                /\ c.matrix[c.filled[a][k][1]][c.filled[a][k][2]] = a
    /\ \A f \in Occupied(c.matrix) : c.matrix[f[1]][f[2]] \in Placed(c)

\* C38: the set of placed allocations is fixed by initial placement: through both
\* search phases, up to the return or the error, an allocation placed then is placed,
\* with a full filled list, and an allocation left unplaced then is not placed.
C38_PlacedSetFixed ==
    InSearch \/ pc = "error" => SamePlacedAsInitially(cand) /\ SamePlacedAsInitially(caller)

\* C38's case: at the return a placed allocation of two hours stands elsewhere than
\* initial placement put it, and an allocation left unplaced is still unplaced.
C38_Witness ==
    /\ pc = "returned"
    /\ \E a \in Placed(cand) : Duration(a) = 2 /\ cand.filled[a] # InitialPlacement.filled[a]
    /\ AllocIdx \ Placed(cand) # {}

\* An annealing iteration has called the relocation on an unplaced allocation.
C38_WitnessUnplacedPicked ==
    /\ pc = "anneal"
    /\ last.op \in {"accept", "reject"}
    /\ last.a \in AllocIdx \ Placed(cand)

(* ---------------- unknown commands and malformed bodies ---------------- *)

C39_WitnessMalformed ==
    /\ handled > 0
    /\ delivery.body.form = "malformed"
    /\ Truthy(delivery.properties.reply_to)
    /\ PublishCalls = {}
    /\ Acknowledged # {}

\* A message with no "pattern": the reply names the command None. And a message after
\* one more.
C39_WitnessNoPattern ==
    /\ handled = MaxMessages
    /\ delivery.body = [form |-> "object", pattern |-> NoneStr]
    /\ \E p \in PublishCalls : calls[p].message = <<"Unknown command: ", "None">>

(* ------------------ the counter and the delay of the loop -------------- *)

\* C40: every pass of the reconnect loop that makes the connection sets the attempt
\* counter back to 0 (it is 1 after the pass if the connection is then lost, 0 if
\* consuming returns) and no pass sets the delay back: the delay and the waits slept
\* never decrease; the loop is left on a shutdown signal or when the last 10 passes
\* have failed, none but the first of them having made the connection.
C40_CounterResetDelayKept ==
    [][/\ reconnect_delay' >= reconnect_delay
       /\ \A k \in 1..(Len(slept') - 1) : slept'[k] <= slept'[k + 1]
       /\ Len(slept') > 0 => slept'[Len(slept')] <= reconnect_delay'
       /\ ConnectionLost => current_attempt' = 1 /\ since_connect' = 1
       /\ ConsumingReturns => current_attempt' = 0 /\ since_connect' = 0
       /\ ConnectFails =>
             /\ current_attempt' = current_attempt + 1
             /\ since_connect' = since_connect + 1
       /\ (consumer = "loop" /\ consumer' # "loop") =>
             \/ consumer' = "interrupted" /\ Interrupted
             \/ /\ consumer' = "gave_up"
                /\ since_connect = max_reconnect_attempts
                /\ failures >= max_reconnect_attempts
                /\ reconnect_delay = max_delay * Ticks]_vars

\* C40's case: after nine failures and eight waits or more a connection has been made
\* and consuming has returned: the counter is 0 and the delay is at its cap.
C40_Witness ==
    /\ consumer = "loop"
    /\ current_attempt = 0
    /\ failures >= max_reconnect_attempts - 1
    /\ Len(slept) >= 8
    /\ reconnect_delay = max_delay * Ticks
    /\ slept[Len(slept)] = max_delay * Ticks

\* The loop is left after a connection was lost and nine connections failed, with
\* failures before that connection.
C40_WitnessGaveUpAfterReset ==
    /\ consumer = "gave_up"
    /\ failures = max_reconnect_attempts + 1
    /\ Len(slept) = MaxWaits - 1

\* The loop is left on a shutdown signal with failures counted.
C40_WitnessInterrupted ==
    /\ consumer = "interrupted"
    /\ current_attempt = max_reconnect_attempts - 1

====
